---------------------------- MODULE Spec2Model ----------------------------
(***************************************************************************)
(* Model of the conversion engine in                                       *)
(*   src/transformer/繁体字形转换为规范繁体字形.py                          *)
(* (class ConversionWorker and its nested                                  *)
(* DocxTraditionalSimplifiedConverter).                                    *)
(*                                                                         *)
(* Two specifications share the variables:                                 *)
(*   Spec     the worker thread: run -> process_files -> per-file          *)
(*            conversion, with convert_document unfolded step by step;     *)
(*   SpecEnc  detect_encoding applied to every (guess, confidence, trial   *)
(*            decode outcome) the bounded input domain offers.             *)
(*                                                                         *)
(* Files are abstract: a file is what the code can observe of it (its      *)
(* name, whether a zip reader accepts it, how each trial decode ends).     *)
(* A call to the operating system or to a library that the code wraps in   *)
(* try/except, or whose failure the design document singles out, may       *)
(* raise; the choice is made with \E.  detect_encoding is modelled from    *)
(* the bytes it has read onwards.                                          *)
(***************************************************************************)
EXTENDS Integers, Sequences, FiniteSets, TLC

(***************************************************************************)
(* Bounds                                                                  *)
(***************************************************************************)
\* longest folder listing
MaxFiles == 2

(***************************************************************************)
(* detect_encoding (lines 47-116)                                          *)
(***************************************************************************)
\* Python's None as returned by chardet for "no guess"
NoGuess == "None"

\* encoding names chardet may report (result['encoding'])
GuessNames ==
  {NoGuess, "GB2312", "gb2312", "GBK", "utf-8", "ascii",
   "ISO-8859-1", "Windows-1252", "Big5"}

\* confidences in percent: one value on each side of every threshold
Confidences == {0, 69, 70, 89, 90, 94, 95, 100}

\* confidence thresholds of the cascade, in percent
GB2312Confidence == 95
LowConfidence == 70
Utf8Confidence == 90

\* str.lower() on the encoding names that occur
Lower(name) ==
  CASE name = "GB2312" -> "gb2312"
    [] name = "GBK" -> "gbk"
    [] name = "Big5" -> "big5"
    [] name = "ISO-8859-1" -> "iso-8859-1"
    [] name = "Windows-1252" -> "windows-1252"
    [] name = "EUC-TW" -> "euc-tw"
    [] OTHER -> name

\* the candidate list tried on the first 1000 bytes, in order
chinese_encodings_gbk_first == <<"gbk", "gb18030", "gb2312", "big5">>

chinese_encodings == <<"gb18030", "gbk", "gb2312", "big5">>

\* the guesses treated as "common misdetections"
WesternGuesses == {"ISO-8859-1", "Windows-1252", "ascii"}

\* outcome of one strict trial decode: UnicodeDecodeError, decoded without
\* a character in U+4E00..U+9FFF, decoded with at least one
DecodeOutcomes == {"fail", "plain", "cjk"}

\* What detect_encoding can observe of the bytes of a file:
\*   full  strict gb18030 decode of the whole file
\*   ext   the whole-file decode has a character above U+9FFF
\*   pre   strict decode of raw_data[:1000] under each candidate
\* The Python codecs are nested: whatever gb2312 decodes, gbk decodes to a
\* text with the same CJK content, and likewise gbk within gb18030; a
\* prefix that decodes is a prefix of the whole decode.
Probes ==
  { p \in [full : DecodeOutcomes, ext : BOOLEAN,
           pre : [{"gb18030", "gbk", "gb2312", "big5"} -> DecodeOutcomes]] :
      /\ (p.pre["gb2312"] # "fail" => p.pre["gbk"] = p.pre["gb2312"])
      /\ (p.pre["gbk"] # "fail" => p.pre["gb18030"] = p.pre["gbk"])
      /\ (p.full = "plain" => p.pre["gb18030"] # "cjk")
      /\ (p.ext => p.full # "fail") }

\* chardet.detect: a missing guess has confidence 0.0; "ascii" is reported
\* only for pure 7-bit data, which every codec decodes without CJK
GuessFits(g, c, p) ==
  /\ (g = NoGuess => c = 0)
  /\ (g = "ascii" => /\ p.full = "plain"
                     /\ ~p.ext
                     /\ \A e \in DOMAIN p.pre : p.pre[e] = "plain")

\* lines 83-93: first candidate that decodes strictly and yields CJK
RECURSIVE TryCandidatesAnyDecode(_, _)
TryCandidatesAnyDecode(encs, p) ==
  IF encs = <<>> THEN NoGuess
  ELSE IF p.pre[Head(encs)] # "fail" THEN Head(encs)
  ELSE TryCandidatesAnyDecode(Tail(encs), p)

RECURSIVE TryCandidates(_, _)
TryCandidates(encs, p) ==
  IF encs = <<>> THEN NoGuess
  ELSE IF p.pre[Head(encs)] = "cjk" THEN Head(encs)
  ELSE TryCandidates(Tail(encs), p)

\* lines 107-116: default to the guess, utf-8 when there is none, and
\* upgrade gb2312/gbk to gb18030
DefaultEncodingKeepsNone(g) ==
  IF Lower(g) \in {"gb2312", "gbk"} THEN "gb18030" ELSE g

DefaultEncoding(g) ==
  LET encoding == IF g = NoGuess THEN "utf-8" ELSE g
  IN IF Lower(encoding) \in {"gb2312", "gbk"} THEN "gb18030" ELSE encoding

\* lines 95-105: utf-8 guessed with low confidence
Utf8Rule(g, c, p) ==
  IF g = "utf-8" /\ c < Utf8Confidence /\ p.full = "cjk"
  THEN "gb18030"
  ELSE DefaultEncoding(g)

\* lines 79-93: low confidence or a Western guess
CandidateRule(g, c, p) ==
  IF c < LowConfidence \/ g \in WesternGuesses
  THEN LET enc == TryCandidates(chinese_encodings, p)
       IN IF enc # NoGuess THEN enc ELSE Utf8Rule(g, c, p)
  ELSE Utf8Rule(g, c, p)

\* the value detect_encoding returns
DetectEncoding(g, c, p) ==
  IF g = "GB2312" /\ c < GB2312Confidence /\ p.full # "fail"
  THEN "gb18030"
  ELSE CandidateRule(g, c, p)

\* the rule of the cascade that returns: "gb2312" (lines 62-74),
\* "candidate" (lines 80-91), "utf8" (lines 96-103), "default" (107-116)
DetectRule(g, c, p) ==
  IF g = "GB2312" /\ c < GB2312Confidence /\ p.full # "fail"
  THEN "gb2312"
  ELSE IF (c < LowConfidence \/ g \in WesternGuesses)
            /\ TryCandidates(chinese_encodings, p) # NoGuess
  THEN "candidate"
  ELSE IF g = "utf-8" /\ c < Utf8Confidence /\ p.full = "cjk"
  THEN "utf8"
  ELSE "default"

\* one caught UnicodeDecodeError: the except clause and the codec
Caught(site, enc) == [site |-> site, enc |-> enc]

\* lines 83-93: the candidates whose trial decode raised before the loop
\* returned or ran out
RECURSIVE CaughtCandidates(_, _)
CaughtCandidates(encs, p) ==
  IF encs = <<>> \/ p.pre[Head(encs)] = "cjk" THEN {}
  ELSE (IF p.pre[Head(encs)] = "fail"
        THEN {Caught("candidate", Head(encs))} ELSE {})
         \cup CaughtCandidates(Tail(encs), p)

\* lines 75-77, 92-93, 104-105: every UnicodeDecodeError the except
\* clauses of detect_encoding catch during one call
DetectCaught(g, c, p) ==
  LET r == DetectRule(g, c, p)
  IN (IF g = "GB2312" /\ c < GB2312Confidence /\ p.full = "fail"
      THEN {Caught("gb2312", "gb18030")} ELSE {})
     \cup (IF r # "gb2312" /\ (c < LowConfidence \/ g \in WesternGuesses)
           THEN CaughtCandidates(chinese_encodings, p) ELSE {})
     \cup (IF r \in {"utf8", "default"} /\ g = "utf-8"
              /\ c < Utf8Confidence /\ p.full = "fail"
           THEN {Caught("utf8", "gb18030")} ELSE {})

\* one log_message signal of detect_encoding
DetectLine(text) == [sig |-> "log", text |-> text, a |-> 0, b |-> 0]

\* lines 49, 58, 69-73, 90, 102, 113: the log lines of one call
DetectLog(g, c, p) ==
  << DetectLine("detect"), DetectLine("chardet_result") >>
  \o (LET r == DetectRule(g, c, p)
      IN IF r = "gb2312"
         THEN << DetectLine(IF p.ext THEN "gb18030_extension"
                                     ELSE "gb18030_compat") >>
         ELSE IF r = "candidate" THEN << DetectLine("cjk_found") >>
         ELSE IF r = "utf8" THEN << DetectLine("gb18030_cjk") >>
         ELSE IF Lower(g) \in {"gb2312", "gbk"}
         THEN << DetectLine("upgrade_gb18030") >>
         ELSE << >>)

VARIABLES
  guess,        \* result['encoding'] of chardet
  confidence,   \* result['confidence'] of chardet, in percent
  probe,        \* the trial-decode outcomes of the file under detection
  encPc,        \* "off" | "call" | "returned"
  encoding,     \* the value detect_encoding returned
  rule,         \* the rule of the cascade that returned it
  caught        \* the trial decodes whose UnicodeDecodeError was caught

encVars == <<guess, confidence, probe, encPc, encoding, rule, caught>>

NoProbe == [full |-> "fail", ext |-> FALSE,
            pre |-> [e \in {"gb18030", "gbk", "gb2312", "big5"} |-> "fail"]]

(***************************************************************************)
(* Files, names and the output folder                                      *)
(***************************************************************************)
\* base names of the files: the entries of one folder differ in their
\* extension, the case in which output names can meet
Stems == {"a"}

\* extensions process_files accepts in folder mode (line 612)
SupportedExts == {"docx", "doc", "txt"}

\* A directory entry or the single input file.
\*   kind  "good": what the extension promises; "junk": not a zip package;
\*         "dir": a directory carrying the name
\*   fn/en the package has a word/footnotes.xml / word/endnotes.xml part
Entry(s, x, k, f, e) == [stem |-> s, ext |-> x, kind |-> k, fn |-> f, en |-> e]

\* packages with every combination of note parts (single-file mode)
PackageEntries ==
  { Entry(s, x, "good", f, e) : s \in Stems, x \in {"docx", "doc"},
                                f \in BOOLEAN, e \in BOOLEAN }

OtherEntries ==
  { Entry(s, x, "good", FALSE, FALSE) : s \in Stems, x \in {"txt", "pdf"} }
    \cup { Entry(s, "docx", "junk", FALSE, FALSE) : s \in Stems }

\* what self.input_path may name when os.path.isfile holds
FileEntries == PackageEntries \cup OtherEntries

\* what os.listdir may return; packages in a folder carry footnotes only
FolderEntries ==
  { Entry(s, x, "good", TRUE, FALSE) : s \in Stems, x \in {"docx", "doc"} }
    \cup OtherEntries
    \cup { Entry(s, "docx", "dir", FALSE, FALSE) : s \in Stems }

\* os.listdir never returns a name twice
DistinctNames(s) ==
  \A i, j \in DOMAIN s :
     i # j => <<s[i].stem, s[i].ext>> # <<s[j].stem, s[j].ext>>

Listings ==
  { s \in UNION { [1..n -> FolderEntries] : n \in 0..MaxFiles } :
      DistinctNames(s) }

\* line 183: os.path.splitext(filename)[0] + ".docx", the package the
\* legacy bridge saves into its temporary directory
BridgedDocx(e) == Entry(e.stem, "docx", "good", e.fn, e.en)

\* lines 236, 548: f"convert_{os.path.basename(input_path)}"
OutName(e) == <<"convert_", e.stem, e.ext>>

OutNames == { <<"convert_", s, x>> : s \in Stems, x \in {"docx", "txt"} }

\* contents a file of the output folder may have
\*   "none" no such file, "partial" a write that did not complete,
\*   "full" footnotes and body converted, "body" body converted only,
\*   "foot" the repacked package of the footnote stage,
\*   "orig" a verbatim copy of the input, "txt" converted text in UTF-8
Contents == {"none", "partial", "full", "body", "foot", "orig", "txt"}

\* one emitted Qt signal: log_message, progress_updated, conversion_finished
Ev(sig, text) == [sig |-> sig, text |-> text, a |-> 0, b |-> 0]
Log(text) == Ev("log", text)
Progress(n, text) == [sig |-> "progress", text |-> text, a |-> n, b |-> 0]
TallyLine(n, m) == [sig |-> "log", text |-> "tally", a |-> n, b |-> m]

VARIABLES
  mode,             \* "file" | "folder" | "none": what input_path names
  listing,          \* the single input file, or os.listdir of the folder
  ccLoads,          \* OpenCC(self.conversion_type) can be constructed
  outFolderExists,  \* os.path.exists(output_folder)
  outdir,           \* output folder: final output name -> content
  tmpfile,          \* output folder: content of <name>.temp.docx
  wpc,              \* where the worker is in run / process_files
  supported_files,  \* the filtered listing (folder mode)
  idx,              \* i of the batch loop
  success_count,
  ret,              \* how process_files ended: "True" | "False" | "raise"
  attempted,        \* indices of the files the loop has started on
  counted,          \* indices added to success_count
  written,          \* <<index, output name>> of every output a file wrote
  emitted,          \* every signal emitted so far, in order
  dpc,              \* where the current docx conversion is
  cur,              \* the package convert_docx_file was called on
  output_path,      \* output name of the current docx conversion
  temp_output,      \* "None" | "set": the local of convert_document
  processing_file,  \* "none" | "temp" | "input"
  footnote_success, \* "unset" | "True" | "False"
  scratch,          \* the TemporaryDirectory of the footnote stage exists
  notes,            \* state of the note parts in the scratch directory
  extracted,        \* the other files of the scratch directory: path -> content
  temp_parts,       \* the members the repack wrote: part name -> content
  dret,             \* how the docx conversion ended: "path" | "raise" | "False"
  bodyRaised,       \* the try block of convert_document raised
  saved,            \* doc.save(output_path) completed
  copyRaised        \* a fallback shutil.copy2 raised

jobVars == <<mode, listing, ccLoads>>
fsVars == <<outFolderExists, outdir, tmpfile>>
loopVars == <<wpc, supported_files, idx, success_count, ret, attempted, counted>>
docVars == <<dpc, cur, output_path, temp_output, processing_file,
             footnote_success, scratch, notes, extracted, temp_parts, extracted, temp_parts, dret,
             bodyRaised, saved, copyRaised>>
workerVars == <<jobVars, fsVars, loopVars, docVars, written, emitted>>

\* convert_txt_file (lines 205-247) and safe_read_file (lines 118-153)
\* unfolded
VARIABLES
  tpc,         \* where the text conversion is
  tfile,       \* the sample file it works on
  caller,      \* who called safe_read_file: "convert_txt_file" | "direct"
  requested,   \* the encoding name passed to safe_read_file
  content,     \* the text safe_read_file returned ("unset" before)
  rret,        \* how safe_read_file ended: "none" | "str" | "raise"
  recovered,   \* the decode stages whose failure safe_read_file caught
  tret,        \* how convert_txt_file ended: "none"|"path"|"False"|"raise"
  saved_text   \* the text written to the output file ("unset": no file)

txtVars == <<tpc, tfile, caller, requested, content, rret, recovered, tret,
             saved_text>>

\* no text conversion is unfolding
TxtOff ==
  /\ tpc = "off"
  /\ tfile = "none"
  /\ caller = "none"
  /\ requested = "None"
  /\ content = "unset"
  /\ rret = "none"
  /\ recovered = {}
  /\ tret = "none"
  /\ saved_text = "unset"

\* _convert_paragraph (lines 444-456) and _preserve_run_format (lines
\* 458-517) on one run
VARIABLES
  run0,        \* the run as it was in the document
  run,         \* the run now
  original,    \* the locals original_* and new_text of _preserve_run_format
  fpc          \* where the conversion of the run is

runVars == <<run0, run, original, fpc>>

\* a run without text and without direct formatting
NoRun ==
  [text |-> "", bold |-> "None", italic |-> "None", underline |-> "None",
   color |-> "None", highlight |-> "None", name |-> "None", size |-> "None",
   eastAsia |-> "None"]

NoOriginal ==
  [new_text |-> "", bold |-> "None", italic |-> "None", underline |-> "None",
   color |-> "None", highlight |-> "None", name |-> "None", size |-> "None"]

RunOff ==
  /\ run0 = NoRun
  /\ run = NoRun
  /\ original = NoOriginal
  /\ fpc = "off"

\* the body stage of convert_document (lines 394-412) on a document tree
VARIABLES
  doc0,        \* the document as it was opened
  doc,         \* the document now
  bpc          \* where the body stage is

treeVars == <<doc0, doc, bpc>>

NoPart == [paragraphs |-> << >>, tables |-> << >>]
NoDoc == [body |-> NoPart, header |-> NoPart, footer |-> NoPart]

TreeOff ==
  /\ doc0 = NoDoc
  /\ doc = NoDoc
  /\ bpc = "off"

\* two conversions of convert_docx_file running at the same time
VARIABLES
  jin,         \* job -> base name of its input, as a list of name pieces
  jpc,         \* job -> where it is
  jscratch,    \* job -> the name of its scratch directory ("none": none)
  jtemp,       \* job -> its local temp_output: "set" | "None"
  disk,        \* the files and directories the jobs made that exist now
  touches      \* who read, wrote or deleted what so far

jobsVars == <<jin, jpc, jscratch, jtemp, disk, touches>>

Jobs == {"A", "B"}

JobsOff ==
  /\ jin = [j \in Jobs |-> << >>]
  /\ jpc = [j \in Jobs |-> "off"]
  /\ jscratch = [j \in Jobs |-> "none"]
  /\ jtemp = [j \in Jobs |-> "None"]
  /\ disk = {}
  /\ touches = {}

\* _convert_footnotes_using_zip_manipulation (lines 269-308) with
\* _convert_xml_file and _convert_xml_file_with_regex unfolded
VARIABLES
  xpc,         \* where the footnote converter is
  xpart,       \* the note part being rewritten ("none": none)
  xfile,       \* note part -> state of its file in the scratch directory
  xsteps,      \* note part -> the steps of the rewriter that ran on it
  xlog,        \* the log lines emitted so far
  xpacked,     \* note part -> its state in the package written
  xret         \* what the footnote converter returned

notesVars == <<xpc, xpart, xfile, xsteps, xlog, xpacked, xret>>

NoteNames == {"footnotes", "endnotes"}

NotesOff ==
  /\ xpc = "off"
  /\ xpart = "none"
  /\ xfile = [n \in NoteNames |-> "absent"]
  /\ xsteps = [n \in NoteNames |-> {}]
  /\ xlog = << >>
  /\ xpacked = [n \in NoteNames |-> "none"]
  /\ xret = "none"

\* the variables of the specifications other than the worker's and the
\* detector's, and their idle values
otherVars == <<txtVars, runVars, treeVars, jobsVars, notesVars>>

OthersOff == TxtOff /\ RunOff /\ TreeOff /\ JobsOff /\ NotesOff

vars == <<encVars, workerVars, otherVars>>

NoEntry == Entry("-", "none", "good", FALSE, FALSE)
NoName == <<"convert_", "-", "none">>
NoNotes == [footnotes |-> "absent", endnotes |-> "absent"]
NoFiles == << >>

\* the docx conversion locals before / between conversions
DocIdle ==
  /\ dpc = "none"
  /\ cur = NoEntry
  /\ output_path = NoName
  /\ temp_output = "None"
  /\ processing_file = "none"
  /\ footnote_success = "unset"
  /\ scratch = FALSE
  /\ notes = NoNotes
  /\ extracted = NoFiles
  /\ temp_parts = NoFiles
  /\ dret = "none"
  /\ bodyRaised = FALSE
  /\ saved = FALSE
  /\ copyRaised = FALSE

EncOff ==
  /\ guess = NoGuess
  /\ confidence = 0
  /\ probe = NoProbe
  /\ encPc = "off"
  /\ encoding = NoGuess
  /\ rule = "none"
  /\ caught = {}

\* the worker as constructed (lines 38-45), before run()
Init ==
  /\ EncOff
  /\ OthersOff
  /\ mode \in {"file", "folder", "none"}
  /\ listing \in CASE mode = "file" -> { <<e>> : e \in FileEntries }
                   [] mode = "folder" -> Listings
                   [] OTHER -> { <<>> }
  /\ ccLoads \in BOOLEAN
  /\ outFolderExists \in BOOLEAN
  /\ outdir = [n \in OutNames |-> "none"]
  /\ tmpfile = [n \in OutNames |-> "none"]
  /\ wpc = "run"
  /\ supported_files = <<>>
  /\ idx = 0
  /\ success_count = 0
  /\ ret = "none"
  /\ attempted = {}
  /\ counted = {}
  /\ written = {}
  /\ emitted = <<>>
  /\ DocIdle

\* the worker does not run in the detector's specification
WorkerOff ==
  /\ mode = "none"
  /\ listing = <<>>
  /\ ccLoads = TRUE
  /\ outFolderExists = TRUE
  /\ outdir = [n \in OutNames |-> "none"]
  /\ tmpfile = [n \in OutNames |-> "none"]
  /\ wpc = "off"
  /\ supported_files = <<>>
  /\ idx = 0
  /\ success_count = 0
  /\ ret = "none"
  /\ attempted = {}
  /\ counted = {}
  /\ written = {}
  /\ emitted = <<>>
  /\ DocIdle

(***************************************************************************)
(* process_files (lines 562-669) and run (lines 671-679)                   *)
(***************************************************************************)
\* the file the worker is on: supported_files[i-1] or self.input_path
CurrentFile == IF mode = "folder" THEN supported_files[idx] ELSE listing[1]

\* line 626: progress_updated at the top of every loop iteration
LoopProgress ==
  IF mode = "folder"
  THEN << Progress((idx * 100) \div Len(supported_files), "file") >>
  ELSE << >>

\* the worker is between two files (no docx conversion is unfolding)
AtFile ==
  /\ dpc = "none"
  /\ \/ wpc = "single"
     \/ wpc = "loop" /\ idx <= Len(supported_files)

\* What the caller does with the value r a per-file conversion returned,
\* after the conversion emitted evs.
\*   folder mode, lines 634-636, 651-653, 660-661: count and go on
\*   single-file mode, lines 571-576, 586-591, 596-601: return
EndFile(r, evs) ==
  IF mode = "folder"
  THEN /\ success_count' = IF r THEN success_count + 1 ELSE success_count
       /\ counted' = IF r THEN counted \cup {idx} ELSE counted
       /\ idx' = idx + 1
       /\ emitted' = emitted \o evs
       /\ UNCHANGED <<wpc, ret>>
  ELSE /\ wpc' = "ret"
       /\ ret' = IF r THEN "True" ELSE "False"
       /\ emitted' = emitted \o evs
                       \o (IF r THEN << Progress(100, "done") >> ELSE << >>)
       /\ UNCHANGED <<success_count, counted, idx>>

\* lines 564-569, 607-622, 667-669: entry of process_files up to the first
\* per-file call
ProcessFiles ==
  /\ wpc = "run"
  /\ CASE mode = "file" ->
            /\ wpc' = "single"
            /\ emitted' = emitted \o << Progress(0, "start") >>
            /\ UNCHANGED <<supported_files, idx, success_count, ret>>
       [] mode = "folder" ->
            LET sup == SelectSeq(listing, LAMBDA e : e.ext \in SupportedExts)
            IN IF sup = << >>
               THEN /\ wpc' = "ret"
                    /\ ret' = "False"
                    /\ emitted' = emitted \o << Progress(0, "start"),
                                                Log("no_supported_files") >>
                    /\ UNCHANGED <<supported_files, idx, success_count>>
               ELSE /\ wpc' = "loop"
                    /\ supported_files' = sup
                    /\ idx' = 1
                    /\ success_count' = 0
                    /\ emitted' = emitted \o << Progress(0, "start"),
                                                Log("found_files") >>
                    /\ UNCHANGED ret
       [] OTHER ->
            /\ wpc' = "ret"
            /\ ret' = "False"
            /\ emitted' = emitted \o << Progress(0, "start"),
                                        Log("bad_input_path") >>
            /\ UNCHANGED <<supported_files, idx, success_count>>
  /\ UNCHANGED <<encVars, otherVars, jobVars, fsVars, docVars, attempted, counted, written>>

\* lines 570-571, 631-634: a .docx file; convert_docx_file is entered
BeginDocx ==
  /\ AtFile
  /\ CurrentFile.ext = "docx"
  /\ dpc' = "enter"
  /\ cur' = CurrentFile
  /\ attempted' = attempted \cup {idx}
  /\ emitted' = emitted \o LoopProgress
  /\ UNCHANGED <<encVars, otherVars, jobVars, fsVars, written, counted,
                 wpc, supported_files, idx, success_count, ret,
                 output_path, temp_output, processing_file, footnote_success,
                 scratch, notes, extracted, temp_parts, dret, bodyRaised, saved, copyRaised>>

\* lines 577-583, 641-647: a .doc file; the legacy bridge is entered
BeginDoc ==
  /\ AtFile
  /\ CurrentFile.ext = "doc"
  /\ dpc' = "bridge"
  /\ cur' = CurrentFile
  /\ attempted' = attempted \cup {idx}
  /\ emitted' = emitted \o LoopProgress \o << Log("doc_detected") >>
  /\ UNCHANGED <<encVars, otherVars, jobVars, fsVars, written, counted,
                 wpc, supported_files, idx, success_count, ret,
                 output_path, temp_output, processing_file, footnote_success,
                 scratch, notes, extracted, temp_parts, dret, bodyRaised, saved, copyRaised>>

\* lines 602-604: single-file mode, any other extension
Unsupported ==
  /\ AtFile
  /\ CurrentFile.ext \notin SupportedExts
  /\ wpc' = "ret"
  /\ ret' = "False"
  /\ emitted' = emitted \o << Log("unsupported_format") >>
  /\ UNCHANGED <<encVars, otherVars, jobVars, fsVars, docVars, written, counted,
                 attempted, supported_files, idx, success_count>>

\* lines 205-247, called at 596 and 660: convert_txt_file and what its
\* caller does with the result.  OpenCC(...) at line 212 stands before the
\* try: when it raises nothing in process_files catches it and the exception
\* reaches run().  Everything after it is inside the try: a failure is
\* logged and False is returned.
ConvertTxt ==
  /\ AtFile
  /\ CurrentFile.ext = "txt"
  /\ attempted' = attempted \cup {idx}
  /\ IF ~ccLoads
     THEN /\ wpc' = "ret"
          /\ ret' = "raise"
          /\ emitted' = emitted \o LoopProgress
          /\ UNCHANGED <<fsVars, written, counted, idx, success_count>>
     ELSE \E r \in {"ok", "mkdir_raise", "raise", "raise_partial"} :
            LET name == OutName(CurrentFile)
                mk == IF outFolderExists THEN << >> ELSE << Log("mkdir") >>
            IN CASE r = "mkdir_raise" ->
                      /\ ~outFolderExists
                      /\ EndFile(FALSE, LoopProgress \o << Log("txt_error") >>)
                      /\ UNCHANGED <<fsVars, written>>
                 [] r = "raise" ->
                      /\ outFolderExists' = TRUE
                      /\ EndFile(FALSE, LoopProgress \o mk
                                   \o << Log("txt_processing"), Log("txt_error") >>)
                      /\ UNCHANGED <<outdir, tmpfile, written>>
                 [] r = "raise_partial" ->
                      /\ outFolderExists' = TRUE
                      /\ outdir' = [outdir EXCEPT ![name] = "partial"]
                      /\ EndFile(FALSE, LoopProgress \o mk
                                   \o << Log("txt_processing"), Log("detect"),
                                         Log("final_encoding"), Log("txt_error") >>)
                      /\ UNCHANGED <<tmpfile, written>>
                 [] OTHER ->
                      /\ outFolderExists' = TRUE
                      /\ outdir' = [outdir EXCEPT ![name] = "txt"]
                      /\ written' = written \cup { <<idx, name>> }
                      /\ EndFile(TRUE, LoopProgress \o mk
                                   \o << Log("txt_processing"), Log("detect"),
                                         Log("final_encoding"), Log("txt_saved") >>)
                      /\ UNCHANGED tmpfile
  /\ UNCHANGED <<encVars, otherVars, jobVars, docVars, supported_files>>

\* lines 663-665: the loop is over
Tally ==
  /\ wpc = "loop"
  /\ dpc = "none"
  /\ idx > Len(supported_files)
  /\ emitted' = emitted \o << TallyLine(success_count, Len(supported_files)),
                              Progress(100, "done") >>
  /\ ret' = "True"
  /\ wpc' = "ret"
  /\ UNCHANGED <<encVars, otherVars, jobVars, fsVars, docVars, written, counted,
                 attempted, supported_files, idx, success_count>>

\* lines 671-677 without the except clause of lines 678-679: nothing is
\* reported when process_files raised
RunFinishOnReturnOnly ==
  /\ wpc = "ret"
  /\ ret # "raise"
  /\ emitted' = emitted \o << Ev("finished", IF ret = "True" THEN "True"
                                                             ELSE "False") >>
  /\ wpc' = "finished"
  /\ UNCHANGED <<encVars, otherVars, jobVars, fsVars, docVars, written, counted,
                 attempted, supported_files, idx, success_count, ret>>

\* lines 671-679: run() reports how process_files ended
RunFinish ==
  /\ wpc = "ret"
  /\ emitted' = emitted \o << Ev("finished", IF ret = "True" THEN "True"
                                                             ELSE "False") >>
  /\ wpc' = "finished"
  /\ UNCHANGED <<encVars, otherVars, jobVars, fsVars, docVars, written, counted,
                 attempted, supported_files, idx, success_count, ret>>

(***************************************************************************)
(* convert_doc_to_docx (lines 155-203)                                     *)
(***************************************************************************)
\* The bridge through Word, and lines 584-594 / 648-657 of the caller.  Every
\* failure inside is caught and logged and makes the bridge return False.
ConvertDocToDocx ==
  /\ dpc = "bridge"
  /\ \E ok \in BOOLEAN :
       IF ok
       THEN /\ dpc' = "enter"
            /\ cur' = BridgedDocx(cur)
            /\ emitted' = emitted \o << Log("doc_converting"),
                                        Log("doc_converted"), Log("doc_ok") >>
            /\ UNCHANGED <<loopVars, output_path, temp_output, processing_file,
                           footnote_success, scratch, notes, extracted, temp_parts, dret, bodyRaised,
                           saved, copyRaised>>
       ELSE /\ EndFile(FALSE, << Log("doc_converting"), Log("doc_error"),
                                 Log("doc_failed") >>)
            /\ dpc' = "none"
            /\ cur' = NoEntry
            /\ UNCHANGED <<supported_files, attempted, output_path,
                           temp_output, processing_file, footnote_success,
                           scratch, notes, extracted, temp_parts, dret, bodyRaised, saved, copyRaised>>
  /\ UNCHANGED <<encVars, otherVars, jobVars, fsVars, written>>

(***************************************************************************)
(* convert_docx_file (lines 531-560) and convert_document (lines 367-437)  *)
(***************************************************************************)
\* the locals of a docx conversion are gone once convert_docx_file returned
DocReset ==
  /\ dpc' = "none"
  /\ cur' = NoEntry
  /\ output_path' = NoName
  /\ temp_output' = "None"
  /\ processing_file' = "none"
  /\ footnote_success' = "unset"
  /\ scratch' = FALSE
  /\ notes' = NoNotes
  /\ extracted' = NoFiles
  /\ temp_parts' = NoFiles
  /\ dret' = "none"
  /\ bodyRaised' = FALSE
  /\ saved' = FALSE
  /\ copyRaised' = FALSE

\* convert_docx_file returns False without reaching convert_document:
\* "raise" through its except clause (lines 558-560), "False" through the
\* else branch (lines 554-556)
DocxFails(how, evs) ==
  /\ dret' = how
  /\ dpc' = "docret"
  /\ output_path' = OutName(cur)
  /\ emitted' = emitted \o evs
  /\ UNCHANGED temp_output

\* lines 538-549 and 371-378: convert_docx_file up to the footnote stage.
\* os.makedirs, and the construction of the converter (OpenCC at line 260),
\* are inside the try of convert_docx_file.
DocxEnter ==
  /\ dpc = "enter"
  /\ \E mkOk \in BOOLEAN :
       LET mk == IF outFolderExists THEN << >> ELSE << Log("mkdir") >>
       IN CASE ~outFolderExists /\ ~mkOk ->
                 /\ DocxFails("raise", << >>)
                 /\ UNCHANGED outFolderExists
            [] (outFolderExists \/ mkOk) /\ cur.kind = "dir" ->
                 /\ DocxFails("False", mk \o << Log("not_docx") >>)
                 /\ outFolderExists' = TRUE
            [] (outFolderExists \/ mkOk) /\ cur.kind # "dir" /\ ~ccLoads ->
                 /\ DocxFails("raise", mk \o << Log("processing") >>)
                 /\ outFolderExists' = TRUE
            [] OTHER ->
                 /\ outFolderExists' = TRUE
                 /\ output_path' = OutName(cur)
                 /\ temp_output' = "set"
                 /\ dpc' = "extract"
                 /\ emitted' = emitted \o mk
                                 \o << Log("processing"), Log("doc_start") >>
                 /\ UNCHANGED dret
  /\ UNCHANGED <<encVars, otherVars, jobVars, outdir, tmpfile, loopVars, written, cur,
                 processing_file, footnote_success, scratch, notes,
                 extracted, temp_parts,
                 bodyRaised, saved, copyRaised>>

\* lines 381-388: the file the body stage opens
ProcessingFileAlwaysTemp(success) == "temp"

ProcessingFileFor(success) == IF success THEN "temp" ELSE "input"

\* the note parts of a package, as lists of path components
FootnotesPart == << "word", "footnotes.xml" >>
EndnotesPart == << "word", "endnotes.xml" >>
NoteParts == {FootnotesPart, EndnotesPart}

\* the other parts every package has
OtherParts ==
  { << "[Content_Types].xml" >>, << "word", "document.xml" >>,
    << "word", "media", "image1.png" >> }

\* the parts (file members) of the zip package e
PartsOf(e) ==
  OtherParts \cup (IF e.fn THEN {FootnotesPart} ELSE {})
             \cup (IF e.en THEN {EndnotesPart} ELSE {})

\* a zip archive may also carry directory entries, which are not parts
DirEntries == { << "word" >>, << "word", "media" >> }

\* the members of the zip package e
MembersOf(e) == PartsOf(e) \cup DirEntries

\* the bytes of part n of the input package, untouched or rewritten
Bytes(n, state) == [of |-> n, state |-> state]

\* line 276: the directory mkdtemp made
TempDir == "tmp_dir"

\* line 279: extractall writes member n to os.path.join(temp_dir, n)
ExtractPath(n) == << TempDir >> \o n

\* line 301: os.path.relpath(file_path, temp_dir)
ArcName(path) == Tail(path)

\* lines 278-279: the files extractall leaves in the scratch directory,
\* the note parts aside (their state is in notes); directory entries
\* become directories
ExtractAll(e) ==
  [path \in { ExtractPath(n) : n \in (MembersOf(e) \ DirEntries) \ NoteParts } |->
     Bytes(ArcName(path), "orig")]

\* the note files present in the scratch directory
NoteFiles(nts) ==
  (IF nts.footnotes # "absent" THEN {ExtractPath(FootnotesPart)} ELSE {})
    \cup (IF nts.endnotes # "absent" THEN {ExtractPath(EndnotesPart)} ELSE {})

\* lines 296-302: os.walk visits every file below temp_dir, whatever its
\* depth, and zipf.write stores it under its relative path
WalkFilesTopLevelOnly(files, nts) ==
  { path \in DOMAIN files \cup NoteFiles(nts) : Len(path) = 2 }

WalkFiles(files, nts) == DOMAIN files \cup NoteFiles(nts)

RepackedParts(files, nts) ==
  [n \in { ArcName(path) : path \in WalkFiles(files, nts) } |->
     CASE n = FootnotesPart -> Bytes(n, nts.footnotes)
       [] n = EndnotesPart -> Bytes(n, nts.endnotes)
       [] OTHER -> files[ExtractPath(n)]]

\* line 276: leaving the TemporaryDirectory block, normally or through an
\* exception, removes the directory
ScratchAfterExitOnReturnOnly(raised) == raised

ScratchAfterExit(raised) == FALSE

\* lines 306-308 and 381-388: the footnote converter caught an exception and
\* returned False; convert_document goes on with the original input
FootnotesFailed ==
  /\ footnote_success' = "False"
  /\ processing_file' = ProcessingFileFor(FALSE)
  /\ temp_output' = "None"
  /\ dpc' = "open"
  /\ emitted' = emitted \o << Log("zip_error"), Log("foot_failed_body_only") >>

\* lines 276-279: create the scratch directory and extract the package.  A
\* file that is not a zip package always fails here; any package may.
FootExtract ==
  /\ dpc = "extract"
  /\ \E ok \in BOOLEAN :
       IF ok /\ cur.kind = "good"
       THEN /\ scratch' = TRUE
            /\ notes' = [footnotes |-> IF cur.fn THEN "orig" ELSE "absent",
                         endnotes |-> IF cur.en THEN "orig" ELSE "absent"]
            /\ extracted' = ExtractAll(cur)
            /\ dpc' = "xml"
            /\ UNCHANGED <<emitted, footnote_success, processing_file,
                           temp_output>>
       ELSE /\ FootnotesFailed
            /\ scratch' = ScratchAfterExit(TRUE)
            /\ UNCHANGED <<notes, extracted>>
  /\ UNCHANGED <<encVars, otherVars, jobVars, fsVars, loopVars, written, cur,
                 output_path, temp_parts, dret, bodyRaised, saved, copyRaised>>

\* how _convert_xml_file (lines 310-365) ends on a part that exists:
\*   "structured" parsed, rewritten and written back
\*   "regex"      the structured path raised, the regex fallback rewrote
\*   "failed"     both raised; both errors are logged, nothing propagates
\*   "regex_cut"  tree.write raised after it had truncated the file, the
\*                regex fallback rewrote what was left
\*   "cut"        both raised, and a write that raised had truncated the
\*                file
XmlOutcomes == {"structured", "regex", "failed", "regex_cut", "cut"}

XmlLog(o) ==
  CASE o = "structured" -> << >>
    [] o \in {"regex", "regex_cut"} -> << Log("xml_error") >>
    [] OTHER -> << Log("xml_error"), Log("regex_error") >>

XmlState(o) ==
  CASE o = "failed" -> "orig"
    [] o \in {"regex_cut", "cut"} -> "truncated"
    [] OTHER -> "converted"

\* lines 281-293: rewrite the note parts that exist
FootXml ==
  /\ dpc = "xml"
  /\ \E of \in XmlOutcomes, oe \in XmlOutcomes :
       /\ (notes.footnotes = "absent" => of = "structured")
       /\ (notes.endnotes = "absent" => oe = "structured")
       /\ notes' = [footnotes |-> IF notes.footnotes = "absent" THEN "absent"
                                  ELSE XmlState(of),
                    endnotes |-> IF notes.endnotes = "absent" THEN "absent"
                                 ELSE XmlState(oe)]
       /\ emitted' = emitted
            \o (IF notes.footnotes = "absent"
                THEN << Log("no_footnotes") >>
                ELSE XmlLog(of) \o << Log("footnotes_converted") >>)
            \o (IF notes.endnotes = "absent"
                THEN << >>
                ELSE XmlLog(oe) \o << Log("endnotes_converted") >>)
  /\ dpc' = "repack"
  /\ UNCHANGED <<encVars, otherVars, jobVars, fsVars, loopVars, written, cur,
                 output_path, temp_output, processing_file, footnote_success,
                 scratch, extracted, temp_parts, dret, bodyRaised, saved,
                 copyRaised>>

\* lines 295-308 and 379-388: write the package to temp_output and leave
\* the TemporaryDirectory block.
\*   "ok"          the package is complete, True is returned
\*   "raise_open"  zipfile.ZipFile(output_path, 'w') raised: no file
\*   "raise_write" a zipf.write raised after the file was created: closing
\*                 the ZipFile leaves a truncated package on disk
FootRepack ==
  /\ dpc = "repack"
  /\ \E r \in {"ok", "raise_open", "raise_write"} :
       CASE r = "ok" ->
              /\ tmpfile' = [tmpfile EXCEPT ![output_path] = "foot"]
              /\ temp_parts' = RepackedParts(extracted, notes)
              /\ scratch' = ScratchAfterExit(FALSE)
              /\ footnote_success' = "True"
              /\ processing_file' = ProcessingFileFor(TRUE)
              /\ dpc' = "open"
              /\ UNCHANGED <<emitted, temp_output>>
         [] r = "raise_open" ->
              /\ FootnotesFailed
              /\ scratch' = ScratchAfterExit(TRUE)
              /\ UNCHANGED <<tmpfile, temp_parts>>
         [] OTHER ->
              /\ FootnotesFailed
              /\ scratch' = ScratchAfterExit(TRUE)
              /\ tmpfile' = [tmpfile EXCEPT ![output_path] = "partial"]
              /\ UNCHANGED temp_parts
  /\ extracted' = IF scratch' THEN extracted ELSE NoFiles
  /\ UNCHANGED <<encVars, otherVars, jobVars, outFolderExists, outdir, loopVars, written,
                 cur, output_path, notes, dret, bodyRaised, saved, copyRaised>>

\* line 424-425: the try block of convert_document raised
BodyRaises ==
  /\ bodyRaised' = TRUE
  /\ dpc' = "handler"
  /\ emitted' = emitted \o << Log("doc_error_body") >>

\* line 392: Document(processing_file).  The original input of a file that
\* is not a package cannot be opened.
BodyOpen ==
  /\ dpc = "open"
  /\ \E ok \in BOOLEAN :
       IF ok /\ (processing_file = "temp" \/ cur.kind = "good")
       THEN /\ dpc' = "convert"
            /\ UNCHANGED <<bodyRaised, emitted>>
       ELSE BodyRaises
  /\ UNCHANGED <<encVars, otherVars, jobVars, fsVars, loopVars, written, cur,
                 output_path, temp_output, processing_file, footnote_success,
                 scratch, notes, extracted, temp_parts, dret, saved, copyRaised>>

\* lines 394-412: paragraphs, tables, headers, footers
BodyConvert ==
  /\ dpc = "convert"
  /\ \E ok \in BOOLEAN :
       IF ok
       THEN /\ dpc' = "save"
            /\ UNCHANGED <<bodyRaised, emitted>>
       ELSE BodyRaises
  /\ UNCHANGED <<encVars, otherVars, jobVars, fsVars, loopVars, written, cur,
                 output_path, temp_output, processing_file, footnote_success,
                 scratch, notes, extracted, temp_parts, dret, saved, copyRaised>>

\* lines 414-416: doc.save(output_path); a save that raises may leave a
\* truncated file at output_path
BodySave ==
  /\ dpc = "save"
  /\ \E r \in {"ok", "raise", "raise_partial"} :
       CASE r = "ok" ->
              /\ outdir' = [outdir EXCEPT ![output_path] =
                              IF processing_file = "temp" THEN "full" ELSE "body"]
              /\ saved' = TRUE
              /\ dpc' = "cleanup"
              /\ emitted' = emitted \o << Log("doc_done") >>
              /\ UNCHANGED bodyRaised
         [] r = "raise" ->
              /\ BodyRaises
              /\ UNCHANGED <<outdir, saved>>
         [] OTHER ->
              /\ BodyRaises
              /\ outdir' = [outdir EXCEPT ![output_path] = "partial"]
              /\ UNCHANGED saved
  /\ UNCHANGED <<encVars, otherVars, jobVars, outFolderExists, tmpfile, loopVars,
                 written, cur, output_path, temp_output, processing_file,
                 footnote_success, scratch, notes, extracted, temp_parts, dret, copyRaised>>

\* lines 418-422: remove the temporary package and return; os.remove is
\* still inside the try
BodyCleanup ==
  /\ dpc = "cleanup"
  /\ IF temp_output = "set" /\ tmpfile[output_path] # "none"
     THEN \E ok \in BOOLEAN :
            IF ok
            THEN /\ tmpfile' = [tmpfile EXCEPT ![output_path] = "none"]
                 /\ dret' = "path"
                 /\ dpc' = "docret"
                 /\ UNCHANGED <<bodyRaised, emitted>>
            ELSE /\ BodyRaises
                 /\ UNCHANGED <<tmpfile, dret>>
     ELSE /\ dret' = "path"
          /\ dpc' = "docret"
          /\ UNCHANGED <<tmpfile, bodyRaised, emitted>>
  /\ UNCHANGED <<encVars, otherVars, jobVars, outFolderExists, outdir, loopVars,
                 written, cur, output_path, temp_output, processing_file,
                 footnote_success, scratch, notes, extracted, temp_parts, saved, copyRaised>>

\* shutil.copy2 to output_path raised; the exception leaves
\* convert_document
CopyRaises(partial) ==
  /\ copyRaised' = TRUE
  /\ dret' = "raise"
  /\ dpc' = "docret"
  /\ outdir' = IF partial THEN [outdir EXCEPT ![output_path] = "partial"]
               ELSE outdir
  /\ UNCHANGED emitted

\* lines 427 and 433: what the except handler copies to output_path
FallbackSourceAlwaysInput == "input"

FallbackSourceOnDisk ==
  IF tmpfile[output_path] # "none" THEN "temp" ELSE "input"

FallbackSource ==
  IF temp_output = "set" /\ tmpfile[output_path] # "none"
  THEN "temp" ELSE "input"

\* lines 426-428 and 433-437: the fallback copy of the except handler
FallbackCopy ==
  /\ dpc = "handler"
  /\ \E r \in {"ok", "raise", "raise_partial"} :
       CASE r # "ok" -> CopyRaises(r = "raise_partial")
         [] r = "ok" /\ FallbackSource = "temp" ->
              /\ outdir' = [outdir EXCEPT ![output_path] = tmpfile[output_path]]
              /\ dpc' = "handler_rm"
              /\ UNCHANGED <<copyRaised, dret, emitted>>
         [] OTHER ->
              /\ outdir' = [outdir EXCEPT ![output_path] = "orig"]
              /\ dret' = "path"
              /\ dpc' = "docret"
              /\ emitted' = emitted \o << Log("copied_original") >>
              /\ UNCHANGED copyRaised
  /\ UNCHANGED <<encVars, otherVars, jobVars, outFolderExists, tmpfile, loopVars,
                 written, cur, output_path, temp_output, processing_file,
                 footnote_success, scratch, notes, extracted, temp_parts, bodyRaised, saved>>

\* lines 429-432: remove the temporary package after the fallback copy
FallbackRemove ==
  /\ dpc = "handler_rm"
  /\ \E ok \in BOOLEAN :
       IF ok
       THEN /\ tmpfile' = [tmpfile EXCEPT ![output_path] = "none"]
            /\ dret' = "path"
            /\ emitted' = emitted \o << Log("saved_basic") >>
       ELSE /\ dret' = "raise"
            /\ UNCHANGED <<tmpfile, emitted>>
  /\ dpc' = "docret"
  /\ UNCHANGED <<encVars, otherVars, jobVars, outFolderExists, outdir, loopVars,
                 written, cur, output_path, temp_output, processing_file,
                 footnote_success, scratch, notes, extracted, temp_parts, bodyRaised, saved,
                 copyRaised>>

\* lines 549-560: convert_document has ended; convert_docx_file returns the
\* output path, or logs the exception and returns False, and the caller
\* goes on
DocxReturn ==
  /\ dpc = "docret"
  /\ IF dret = "path"
     THEN /\ EndFile(TRUE, << Log("docx_saved") >>)
          /\ written' = written \cup { <<idx, output_path>> }
     ELSE /\ EndFile(FALSE, IF dret = "raise" THEN << Log("docx_error") >>
                                             ELSE << >>)
          /\ UNCHANGED written
  /\ DocReset
  /\ UNCHANGED <<encVars, otherVars, jobVars, fsVars, supported_files, attempted>>

Next ==
  \/ ProcessFiles
  \/ BeginDocx
  \/ BeginDoc
  \/ Unsupported
  \/ ConvertTxt
  \/ ConvertDocToDocx
  \/ DocxEnter
  \/ FootExtract
  \/ FootXml
  \/ FootRepack
  \/ BodyOpen
  \/ BodyConvert
  \/ BodySave
  \/ BodyCleanup
  \/ FallbackCopy
  \/ FallbackRemove
  \/ DocxReturn
  \/ Tally
  \/ RunFinish

Spec == Init /\ [][Next]_vars

InitEnc ==
  /\ WorkerOff
  /\ OthersOff
  /\ guess \in GuessNames
  /\ confidence \in Confidences
  /\ probe \in Probes
  /\ GuessFits(guess, confidence, probe)
  /\ encPc = "call"
  /\ encoding = NoGuess
  /\ rule = "none"
  /\ caught = {}

\* one call of detect_encoding
Detect ==
  /\ encPc = "call"
  /\ encoding' = DetectEncoding(guess, confidence, probe)
  /\ rule' = DetectRule(guess, confidence, probe)
  /\ caught' = DetectCaught(guess, confidence, probe)
  /\ emitted' = emitted \o DetectLog(guess, confidence, probe)
  /\ encPc' = "returned"
  /\ UNCHANGED <<guess, confidence, probe, jobVars, fsVars, loopVars, docVars,
                 written, otherVars>>

NextEnc == Detect

SpecEnc == InitEnc /\ [][NextEnc]_vars

(***************************************************************************)
(* convert_txt_file (lines 205-247) with safe_read_file (lines 118-153)    *)
(* unfolded                                                                *)
(***************************************************************************)
\* the codecs of Python the names below resolve to
TxtCodecs ==
  {"gb18030", "gbk", "gb2312", "big5", "utf-8", "ascii", "iso-8859-1",
   "windows-1252"}

Row(a, b, c, d, e, f, g, h) ==
  [k \in TxtCodecs |->
     CASE k = "gb18030" -> a [] k = "gbk" -> b [] k = "gb2312" -> c
       [] k = "big5" -> d [] k = "utf-8" -> e [] k = "ascii" -> f
       [] k = "iso-8859-1" -> g [] OTHER -> h]

\* Sample files, all shorter than the 1000 bytes the detector probes:
\*   gb2312_plain  "中文" written in GB2312
\*   gb2312_dot    "中文・" written in GB2312 (U+30FB is A1A4 in GB2312;
\*                 GBK and GB18030 decode A1A4 as U+00B7)
\*   gbk_only      "镕基" written in GBK
\*   gb18030_ext   "中㐀" written in GB18030 (a four-byte character)
\*   big5_text     "繁體中文測試" written in Big5
\*   utf8_text     "中文" written in UTF-8
\*   ascii_text    "hello"
\*   empty         a file of zero bytes
\*   gbk_broken    "镕" written in GBK followed by the byte FF
\*   binary        the bytes FF FE FF
SampleFiles ==
  {"gb2312_plain", "gb2312_dot", "gbk_only", "gb18030_ext", "big5_text",
   "utf8_text", "ascii_text", "empty", "binary", "gbk_broken"}

\* the samples that are a text written in a legacy Chinese encoding
LegacySamples ==
  {"gb2312_plain", "gb2312_dot", "gbk_only", "gb18030_ext", "big5_text"}

\* What a decode of a sample yields:
\*   "fail"   UnicodeDecodeError (strict only)
\*   "orig"   the text that was written, which has a character in
\*            U+4E00..U+9FFF
\*   "latin"  the text that was written, which has none
\*   "other"  another text, with a character in U+4E00..U+9FFF
\*   "plain"  another text, without one
\*   "empty"  the empty string
\* bytes.decode(k, errors='strict') of each sample under each codec
StrictDecode(f, k) ==
  CASE f = "gb2312_plain" ->
         Row("orig", "orig", "orig", "other",
             "fail", "fail", "plain", "plain")[k]
    [] f = "gb2312_dot" ->
         Row("other", "other", "orig", "other",
             "fail", "fail", "plain", "plain")[k]
    [] f = "gbk_only" ->
         Row("orig", "orig", "fail", "other",
             "fail", "fail", "plain", "plain")[k]
    [] f = "gb18030_ext" ->
         Row("orig", "fail", "fail", "fail",
             "fail", "fail", "plain", "fail")[k]
    [] f = "big5_text" ->
         Row("other", "other", "fail", "orig",
             "fail", "fail", "plain", "plain")[k]
    [] f = "utf8_text" ->
         Row("other", "fail", "fail", "fail",
             "orig", "fail", "plain", "plain")[k]
    [] f = "ascii_text" ->
         Row("latin", "latin", "latin", "latin",
             "latin", "latin", "latin", "latin")[k]
    [] f = "empty" ->
         Row("empty", "empty", "empty", "empty",
             "empty", "empty", "empty", "empty")[k]
    [] f = "binary" ->
         Row("fail", "fail", "fail", "fail",
             "fail", "fail", "plain", "plain")[k]
    [] f = "gbk_broken" ->
         Row("fail", "fail", "fail", "fail",
             "fail", "fail", "plain", "plain")[k]

\* lines 89, 101, 138: any('一' <= char <= '鿿' for char in text)
HasCJK(text) == text \in {"orig", "other"}

\* bytes.decode(k, errors='ignore') of each sample under each codec
LossyDecode(f, k) ==
  CASE f = "gb2312_plain" ->
         Row("orig", "orig", "orig", "other",
             "empty", "empty", "plain", "plain")[k]
    [] f = "gb2312_dot" ->
         Row("other", "other", "orig", "other",
             "plain", "empty", "plain", "plain")[k]
    [] f = "gbk_only" ->
         Row("orig", "orig", "other", "other",
             "plain", "plain", "plain", "plain")[k]
    [] f = "gb18030_ext" ->
         Row("orig", "other", "other", "other",
             "plain", "plain", "plain", "plain")[k]
    [] f = "big5_text" ->
         Row("other", "other", "other", "orig",
             "other", "plain", "plain", "plain")[k]
    [] f = "utf8_text" ->
         Row("other", "other", "other", "other",
             "orig", "empty", "plain", "plain")[k]
    [] f = "ascii_text" ->
         Row("latin", "latin", "latin", "latin",
             "latin", "latin", "latin", "latin")[k]
    [] f = "empty" ->
         Row("empty", "empty", "empty", "empty",
             "empty", "empty", "empty", "empty")[k]
    [] f = "binary" ->
         Row("empty", "empty", "empty", "empty",
             "empty", "empty", "plain", "plain")[k]
    [] f = "gbk_broken" ->
         Row("orig", "orig", "plain", "other",
             "plain", "plain", "plain", "plain")[k]

\* lines 136-139 alone: the lossy decode under the requested codec,
\* whatever it holds
LossyReadRequestedOnly(f, codec) == LossyDecode(f, codec)

\* lines 136-145: the lossy decode under the requested codec when it has
\* a character in U+4E00..U+9FFF, else the lossy decode under gb18030
LossyRead(f, codec) ==
  IF HasCJK(LossyDecode(f, codec)) THEN LossyDecode(f, codec)
  ELSE LossyDecode(f, "gb18030")

\* the outcome of a strict trial decode as detect_encoding sees it
TrialOutcome(text) ==
  IF text = "fail" THEN "fail" ELSE IF HasCJK(text) THEN "cjk" ELSE "plain"

\* lines 65-68, 86-89, 99-101: the trial decodes of a sample (for a file
\* shorter than 1000 bytes raw_data[:1000] is the whole file)
ProbeOf(f) ==
  [full |-> TrialOutcome(StrictDecode(f, "gb18030")),
   ext |-> f = "utf8_text",
   pre |-> [e \in {"gb18030", "gbk", "gb2312", "big5"} |->
              TrialOutcome(StrictDecode(f, e))]]

\* codecs.lookup: the codec an encoding name resolves to; "unknown" makes
\* codecs.open raise LookupError (chardet reports EUC-TW, Python has no
\* such codec)
CodecOf(name) ==
  IF Lower(name) \in TxtCodecs THEN Lower(name) ELSE "unknown"

\* encoding names safe_read_file may be called with
RequestedNames == {"gb2312", "GBK", "gb18030", "utf-8", "Big5", "EUC-TW"}

\* line 233: cc.convert(content)
ConvertText(text) ==
  CASE text = "orig" -> "orig_converted"
    [] text = "other" -> "other_converted"
    [] OTHER -> text

\* the four decode stages of safe_read_file
ReadStages ==
  {"superset_strict", "requested_strict", "requested_lossy",
   "superset_lossy"}

\* safe_read_file returns text after emitting evs
ReadReturns(text, evs) ==
  /\ content' = text
  /\ rret' = "str"
  /\ tpc' = IF caller = "convert_txt_file" THEN "save" ELSE "done"
  /\ emitted' = emitted \o evs
  /\ UNCHANGED tret

\* an exception leaves safe_read_file; in convert_txt_file it is caught at
\* lines 245-247
ReadRaises ==
  /\ rret' = "raise"
  /\ tpc' = "done"
  /\ tret' = IF caller = "convert_txt_file" THEN "False" ELSE tret
  /\ emitted' = IF caller = "convert_txt_file"
                THEN emitted \o << Log("txt_error") >>
                ELSE emitted
  /\ UNCHANGED content

\* lines 212-223: convert_txt_file up to the detection.  The input file
\* exists (the caller found it).
TxtEnter ==
  /\ tpc = "start"
  /\ caller' = "convert_txt_file"
  /\ IF ~ccLoads
     THEN /\ tret' = "raise"
          /\ tpc' = "done"
          /\ UNCHANGED <<outFolderExists, emitted>>
     ELSE \E mkOk \in BOOLEAN :
            IF ~outFolderExists /\ ~mkOk
            THEN /\ tret' = "False"
                 /\ tpc' = "done"
                 /\ emitted' = emitted \o << Log("txt_error") >>
                 /\ UNCHANGED outFolderExists
            ELSE /\ outFolderExists' = TRUE
                 /\ tpc' = "detect"
                 /\ emitted' = emitted
                      \o (IF outFolderExists THEN << >> ELSE << Log("mkdir") >>)
                      \o << Log("txt_processing") >>
                 /\ UNCHANGED tret
  /\ UNCHANGED <<runVars, treeVars, jobsVars, notesVars, encVars, mode, listing, ccLoads, outdir, tmpfile, loopVars,
                 docVars, written, tfile, requested, content, rret,
                 recovered, saved_text>>

\* lines 226-227: detect_encoding; open() at line 50 may raise, which is
\* caught at lines 245-247
TxtDetect ==
  /\ tpc = "detect"
  /\ \E io \in BOOLEAN :
       IF io
       THEN /\ tret' = "False"
            /\ tpc' = "done"
            /\ emitted' = emitted \o << Log("detect"), Log("txt_error") >>
            /\ UNCHANGED <<encoding, rule, caught, requested>>
       ELSE /\ encoding' = DetectEncoding(guess, confidence, probe)
            /\ rule' = DetectRule(guess, confidence, probe)
            /\ caught' = DetectCaught(guess, confidence, probe)
            /\ requested' = encoding'
            /\ tpc' = "superset"
            /\ emitted' = emitted \o DetectLog(guess, confidence, probe)
                                 \o << Log("final_encoding") >>
            /\ UNCHANGED tret
  /\ UNCHANGED <<runVars, treeVars, jobsVars, notesVars, guess, confidence, probe, encPc, jobVars, fsVars, loopVars, docVars,
                 written,
                 tfile, caller, content, rret, recovered, saved_text>>

\* safe_read_file called on its own with any encoding name
ReadCall ==
  /\ tpc = "start"
  /\ caller' = "direct"
  /\ \E name \in RequestedNames : requested' = name
  /\ tpc' = "superset"
  /\ UNCHANGED <<runVars, treeVars, jobsVars, notesVars, encVars, workerVars, tfile, content, rret, recovered, tret,
                 saved_text>>

\* lines 121-126: a gb2312/gbk request is first read as gb18030, strictly;
\* only UnicodeDecodeError is caught
ReadSuperset ==
  /\ tpc = "superset"
  /\ IF Lower(requested) \in {"gb2312", "gbk"}
     THEN \E io \in BOOLEAN :
            CASE io ->
                   /\ ReadRaises
                   /\ UNCHANGED recovered
              [] ~io /\ StrictDecode(tfile, "gb18030") # "fail" ->
                   /\ ReadReturns(StrictDecode(tfile, "gb18030"), << >>)
                   /\ UNCHANGED recovered
              [] OTHER ->
                   /\ recovered' = recovered \cup {"superset_strict"}
                   /\ emitted' = emitted \o << Log("gb18030_strict_failed") >>
                   /\ tpc' = "strict"
                   /\ UNCHANGED <<content, rret, tret>>
     ELSE /\ tpc' = "strict"
          /\ UNCHANGED <<content, rret, tret, recovered, emitted>>
  /\ UNCHANGED <<runVars, treeVars, jobsVars, notesVars, encVars, jobVars, fsVars, loopVars, docVars,
                 written, tfile, caller, requested,
                 saved_text>>

\* lines 128-133: strict read under the requested encoding; only
\* UnicodeDecodeError is caught, so LookupError (unknown name) and OSError
\* leave the function
ReadStrict ==
  /\ tpc = "strict"
  /\ \E io \in BOOLEAN :
       CASE io \/ CodecOf(requested) = "unknown" ->
              /\ ReadRaises
              /\ UNCHANGED recovered
         [] ~io /\ CodecOf(requested) # "unknown"
                /\ StrictDecode(tfile, CodecOf(requested)) # "fail" ->
              /\ ReadReturns(StrictDecode(tfile, CodecOf(requested)), << >>)
              /\ UNCHANGED recovered
         [] OTHER ->
              /\ recovered' = recovered \cup {"requested_strict"}
              /\ emitted' = emitted \o << Log("strict_failed") >>
              /\ tpc' = "lossy"
              /\ UNCHANGED <<content, rret, tret>>
  /\ UNCHANGED <<runVars, treeVars, jobsVars, notesVars, encVars, jobVars, fsVars, loopVars, docVars,
                 written, tfile, caller, requested,
                 saved_text>>

\* lines 134-146: lossy read under the requested encoding, and under
\* gb18030 when the result has no CJK character; any exception is caught,
\* whether the first open raised or the second one (reopened)
ReadLossy ==
  /\ tpc = "lossy"
  /\ \E io, reopened \in BOOLEAN :
       LET text == LossyDecode(tfile, CodecOf(requested))
       IN CASE io ->
                 /\ recovered' = recovered \cup {"requested_lossy"}
                 /\ emitted' = emitted
                      \o (IF HasCJK(text) THEN << >>
                          ELSE IF reopened
                          THEN << Log("no_cjk_try_gb18030") >>
                          ELSE << >>)
                      \o << Log("read_error") >>
                 /\ tpc' = "last"
                 /\ UNCHANGED <<content, rret, tret>>
            [] ~io /\ HasCJK(text) ->
                 /\ ReadReturns(LossyRead(tfile, CodecOf(requested)), << >>)
                 /\ UNCHANGED recovered
            [] OTHER ->
                 /\ ReadReturns(LossyRead(tfile, CodecOf(requested)),
                                << Log("no_cjk_try_gb18030") >>)
                 /\ UNCHANGED recovered
  /\ UNCHANGED <<runVars, treeVars, jobsVars, notesVars, encVars, jobVars, fsVars, loopVars, docVars,
                 written, tfile, caller, requested,
                 saved_text>>

\* lines 147-153: last lossy read under gb18030; the empty string when that
\* raises too
ReadLast ==
  /\ tpc = "last"
  /\ \E io \in BOOLEAN :
       IF io
       THEN /\ recovered' = recovered \cup {"superset_lossy"}
            /\ ReadReturns("empty", << Log("final_read_failed") >>)
       ELSE /\ ReadReturns(LossyDecode(tfile, "gb18030"), << >>)
            /\ UNCHANGED recovered
  /\ UNCHANGED <<runVars, treeVars, jobsVars, notesVars, encVars, jobVars, fsVars, loopVars, docVars,
                 written, tfile, caller, requested,
                 saved_text>>

\* lines 232-247: convert, write the output file, return its path; a
\* failure of the write is caught and False is returned
TxtSave ==
  /\ tpc = "save"
  /\ \E ok \in BOOLEAN :
       IF ok
       THEN /\ saved_text' = ConvertText(content)
            /\ tret' = "path"
            /\ emitted' = emitted \o << Log("txt_saved") >>
       ELSE /\ saved_text' \in {"unset", "partial"}
            /\ tret' = "False"
            /\ emitted' = emitted \o << Log("txt_error") >>
  /\ tpc' = "done"
  /\ UNCHANGED <<runVars, treeVars, jobsVars, notesVars, encVars, jobVars, fsVars, loopVars, docVars,
                 written, tfile, caller, requested,
                 content, rret, recovered>>

\* a text conversion, or a call of safe_read_file, on a sample file with
\* whatever chardet reports for it
InitTxt ==
  /\ NotesOff
  /\ RunOff
  /\ TreeOff
  /\ JobsOff
  /\ tpc = "start"
  /\ tfile \in SampleFiles
  /\ guess \in GuessNames
  /\ confidence \in Confidences
  /\ probe = ProbeOf(tfile)
  /\ GuessFits(guess, confidence, probe)
  /\ encPc = "off"
  /\ encoding = NoGuess
  /\ rule = "none"
  /\ caught = {}
  /\ caller = "none"
  /\ requested = "None"
  /\ content = "unset"
  /\ rret = "none"
  /\ recovered = {}
  /\ tret = "none"
  /\ saved_text = "unset"
  /\ mode = "none"
  /\ listing = <<>>
  /\ ccLoads \in BOOLEAN
  /\ outFolderExists \in BOOLEAN
  /\ outdir = [n \in OutNames |-> "none"]
  /\ tmpfile = [n \in OutNames |-> "none"]
  /\ wpc = "off"
  /\ supported_files = <<>>
  /\ idx = 0
  /\ success_count = 0
  /\ ret = "none"
  /\ attempted = {}
  /\ counted = {}
  /\ written = {}
  /\ emitted = <<>>
  /\ DocIdle

NextTxt ==
  \/ TxtEnter
  \/ TxtDetect
  \/ ReadCall
  \/ ReadSuperset
  \/ ReadStrict
  \/ ReadLossy
  \/ ReadLast
  \/ TxtSave

SpecTxt == InitTxt /\ [][NextTxt]_vars

\* ---------------------------------------------------------------------
\* One run of a paragraph: _convert_paragraph and _preserve_run_format
\* ---------------------------------------------------------------------

\* what the specifications of the document body leave alone
restOfRun == <<encVars, workerVars, txtVars, treeVars, jobsVars, notesVars>>

\* run texts: text the mapping changes, text it leaves alone, the same
\* with blanks around it, and text that is empty once trimmed
RunTexts == {"variant", " variant ", "standard", " ", ""}

\* str.strip() leaves nothing
Blank(text) == text \in {"", " "}

\* lines 263-267: cc.convert on a non-empty string, the text itself
\* otherwise
convert_text(text) ==
  CASE text = "variant" -> "standard"
    [] text = " variant " -> " standard "
    [] OTHER -> text

\* direct formatting of a run as python-docx reports it: tri-state bold
\* and italic, underline None | True | a WD_UNDERLINE member, an explicit
\* RGB colour, a highlight (w:val values outside WD_COLOR_INDEX make the
\* getter raise), the font name (w:rFonts/@w:ascii), the size and the
\* East Asian font (w:rFonts/@w:eastAsia)
TriState == {"None", "True", "False"}
Underlines == {"None", "True", "DOUBLE"}
Colors == {"None", "FF0000"}
Highlights == {"None", "YELLOW", "unreadable"}
FontNames == {"None", "SimSun"}
Sizes == {"None", "Pt12"}
EastAsiaFonts == {"None", "SimSun", "KaiTi"}

Runs ==
  [text : RunTexts, bold : TriState, italic : TriState,
   underline : Underlines, color : Colors, highlight : Highlights,
   name : FontNames, size : Sizes, eastAsia : EastAsiaFonts]

\* lines 470-474: the highlight getter inside try/except, None when it
\* raises
ReadHighlight(r) ==
  IF r.highlight = "unreadable" THEN "None" ELSE r.highlight

\* line 481: the text setter of python-docx replaces the run's content
\* and keeps its w:rPr
SetRunText(r, text) == [r EXCEPT !.text = text]

\* lines 499-514 left undone: the East Asian font stays what it was
EastAsiaFontKept(font_name, eastAsia) == eastAsia

\* lines 499-514: with an original font name, w:rFonts/@w:eastAsia is set
\* to it
EastAsiaFont(font_name, eastAsia) ==
  IF font_name # "None" THEN font_name ELSE eastAsia

\* lines 483-517: the saved values written back, the truthy ones only for
\* colour, highlight, name and size
RestoreFormat(r, o) ==
  [r EXCEPT
     !.bold = o.bold,
     !.italic = o.italic,
     !.underline = o.underline,
     !.color = IF o.color # "None" THEN o.color ELSE @,
     !.highlight = IF o.highlight # "None" THEN o.highlight ELSE @,
     !.name = IF o.name # "None" THEN o.name ELSE @,
     !.eastAsia = EastAsiaFont(o.name, @),
     !.size = IF o.size # "None" THEN o.size ELSE @]

\* line 451: a run whose trimmed text is empty is passed over
RunSkip ==
  /\ fpc = "start"
  /\ Blank(run.text)
  /\ fpc' = "skipped"
  /\ UNCHANGED <<run0, run, original, restOfRun>>

\* lines 452-478: the text is converted and the formatting saved
RunSave ==
  /\ fpc = "start"
  /\ ~Blank(run.text)
  /\ original' =
       [new_text |-> convert_text(run.text), bold |-> run.bold,
        italic |-> run.italic, underline |-> run.underline,
        color |-> run.color, highlight |-> ReadHighlight(run),
        name |-> run.name, size |-> run.size]
  /\ fpc' = "saved"
  /\ UNCHANGED <<run0, run, restOfRun>>

\* line 481
RunSetText ==
  /\ fpc = "saved"
  /\ run' = SetRunText(run, original.new_text)
  /\ fpc' = "text_set"
  /\ UNCHANGED <<run0, original, restOfRun>>

\* lines 483-517
RunRestore ==
  /\ fpc = "text_set"
  /\ run' = RestoreFormat(run, original)
  /\ fpc' = "done"
  /\ UNCHANGED <<run0, original, restOfRun>>

InitRun ==
  /\ NotesOff
  /\ EncOff
  /\ WorkerOff
  /\ TxtOff
  /\ TreeOff
  /\ JobsOff
  /\ run0 \in Runs
  /\ run = run0
  /\ original = NoOriginal
  /\ fpc = "start"

NextRun == RunSkip \/ RunSave \/ RunSetText \/ RunRestore

SpecRun == InitRun /\ [][NextRun]_vars

\* ---------------------------------------------------------------------
\* The body stage of convert_document on a document tree
\* ---------------------------------------------------------------------

restOfTree == <<encVars, workerVars, txtVars, runVars, jobsVars, notesVars>>

\* how deep tables nest in the documents explored
MaxDepth == 2

\* a paragraph is the list of the texts of its runs: one with text the
\* mapping changes next to a blank run, and one whose trimmed text is
\* empty
Paragraphs == {<<"variant", " ">>, <<" ">>}

\* a table is the list of its cells in row order, a cell has paragraphs
\* and tables of its own
RECURSIVE TablesOfDepth(_)
TablesOfDepth(d) ==
  IF d = 0 THEN {}
  ELSE {<<[paragraphs |-> <<p>>, tables |-> ts]>> :
          p \in Paragraphs,
          ts \in {<< >>} \cup {<<t>> : t \in TablesOfDepth(d - 1)}}

\* the body, a header or a footer: paragraphs and tables
Parts ==
  [paragraphs : {<<p>> : p \in Paragraphs},
   tables : {<< >>} \cup {<<t>> : t \in TablesOfDepth(MaxDepth)}]

\* a document of one section
Documents == [body : Parts, header : Parts, footer : Parts]

\* line 446: paragraph.text.strip() is empty
ParagraphBlank(p) == \A k \in DOMAIN p : Blank(p[k])

\* lines 444-456: nothing for a paragraph whose trimmed text is empty,
\* else every run with non-empty trimmed text gets the converted text
ConvertParagraph(p) ==
  IF ParagraphBlank(p) THEN p
  ELSE [k \in DOMAIN p |->
          IF Blank(p[k]) THEN p[k] ELSE convert_text(p[k])]

\* lines 439-442
ConvertParagraphs(ps) == [k \in DOMAIN ps |-> ConvertParagraph(ps[k])]

\* lines 519-529 without the recursion of lines 527-529
ConvertTablesFlat(tables) ==
  [i \in DOMAIN tables |->
     [j \in DOMAIN tables[i] |->
        [paragraphs |-> ConvertParagraphs(tables[i][j].paragraphs),
         tables |-> tables[i][j].tables]]]

\* lines 519-529: every cell's paragraphs, then the tables of the cell
RECURSIVE ConvertTables(_)
ConvertTables(tables) ==
  [i \in DOMAIN tables |->
     [j \in DOMAIN tables[i] |->
        [paragraphs |-> ConvertParagraphs(tables[i][j].paragraphs),
         tables |-> ConvertTables(tables[i][j].tables)]]]

\* line 395
BodyParagraphs ==
  /\ bpc = "start"
  /\ doc' = [doc EXCEPT !.body.paragraphs = ConvertParagraphs(@)]
  /\ bpc' = "body_paragraphs"
  /\ UNCHANGED <<doc0, restOfTree>>

\* line 398
BodyTables ==
  /\ bpc = "body_paragraphs"
  /\ doc' = [doc EXCEPT !.body.tables = ConvertTables(@)]
  /\ bpc' = "body_tables"
  /\ UNCHANGED <<doc0, restOfTree>>

\* lines 401-405
Headers ==
  /\ bpc = "body_tables"
  /\ doc' = [doc EXCEPT
               !.header.paragraphs = ConvertParagraphs(@),
               !.header.tables = IF @ # << >> THEN ConvertTables(@) ELSE @]
  /\ bpc' = "headers"
  /\ UNCHANGED <<doc0, restOfTree>>

\* lines 408-412
Footers ==
  /\ bpc = "headers"
  /\ doc' = [doc EXCEPT
               !.footer.paragraphs = ConvertParagraphs(@),
               !.footer.tables = IF @ # << >> THEN ConvertTables(@) ELSE @]
  /\ bpc' = "done"
  /\ UNCHANGED <<doc0, restOfTree>>

InitTree ==
  /\ NotesOff
  /\ EncOff
  /\ WorkerOff
  /\ TxtOff
  /\ RunOff
  /\ JobsOff
  /\ doc0 \in Documents
  /\ doc = doc0
  /\ bpc = "start"

NextTree == BodyParagraphs \/ BodyTables \/ Headers \/ Footers

SpecTree == InitTree /\ [][NextTree]_vars

\* ---------------------------------------------------------------------
\* Two conversions of .docx files running at the same time, writing to
\* one output folder
\* ---------------------------------------------------------------------

restOfJobs == <<encVars, workerVars, txtVars, runVars, treeVars, notesVars>>

\* base names of input files, as lists of name pieces
InputNames ==
  {<<"a", ".docx">>, <<"b", ".docx">>, <<"a", ".docx", ".temp.docx">>}

\* line 548: "convert_" + os.path.basename(input_path), in the output
\* folder
OutputName(name) == <<"convert_">> \o name

\* line 378: output_path + ".temp.docx"
TempName(output) == output \o <<".temp.docx">>

\* names tempfile gives to scratch directories
ScratchNames == {"tmp_1", "tmp_2"}

InputFile(j) == [dir |-> "input", name |-> jin[j]]
OutputFile(j) == [dir |-> "output", name |-> OutputName(jin[j])]
TempFile(j) == [dir |-> "output", name |-> TempName(OutputName(jin[j]))]
ScratchDir(d) == [dir |-> "tempdir", name |-> <<d>>]

Touch(j, res, ops) == {[job |-> j, res |-> res, op |-> o] : o \in ops}

\* lines 547-549, 378 and 276: the paths are derived and
\* tempfile.TemporaryDirectory makes a directory under a name that is not
\* in use; a name stands for one directory, it is not given out twice
JobScratch(j) ==
  /\ jpc[j] = "start"
  /\ \E d \in ScratchNames :
       /\ \A t \in touches : t.res # ScratchDir(d)
       /\ jscratch' = [jscratch EXCEPT ![j] = d]
       /\ disk' = disk \cup {ScratchDir(d)}
       /\ touches' = touches \cup Touch(j, ScratchDir(d), {"write"})
  /\ jpc' = [jpc EXCEPT ![j] = "extract"]
  /\ UNCHANGED <<jin, jtemp, restOfJobs>>

\* lines 278-279: the input package is extracted into the scratch
\* directory; when that raises the directory is removed and the call
\* returns False (lines 306-308, 381-388)
JobExtract(j) ==
  /\ jpc[j] = "extract"
  /\ \E ok \in BOOLEAN :
       IF ok
       THEN /\ jpc' = [jpc EXCEPT ![j] = "repack"]
            /\ touches' = touches
                 \cup Touch(j, InputFile(j), {"read"})
                 \cup Touch(j, ScratchDir(jscratch[j]), {"write"})
            /\ UNCHANGED <<jscratch, disk>>
       ELSE /\ jpc' = [jpc EXCEPT ![j] = "open"]
            /\ touches' = touches
                 \cup Touch(j, InputFile(j), {"read"})
                 \cup Touch(j, ScratchDir(jscratch[j]), {"delete"})
            /\ disk' = disk \ {ScratchDir(jscratch[j])}
            /\ jscratch' = [jscratch EXCEPT ![j] = "none"]
  /\ UNCHANGED <<jin, jtemp, restOfJobs>>

\* lines 281-308: the notes are converted in the scratch directory and
\* the package is written to the temporary path; the scratch directory
\* is removed on the way out. When writing raises, the call returns False
\* and what was written of the file stays
JobRepack(j) ==
  /\ jpc[j] = "repack"
  /\ \E ok \in BOOLEAN :
       /\ jtemp' = [jtemp EXCEPT ![j] = IF ok THEN "set" ELSE "None"]
       /\ \E created \in BOOLEAN :
            /\ ok => created
            /\ disk' = (disk \ {ScratchDir(jscratch[j])})
                 \cup (IF created THEN {TempFile(j)} ELSE {})
            /\ touches' = touches
                 \cup Touch(j, ScratchDir(jscratch[j]),
                            {"read", "write", "delete"})
                 \cup (IF created THEN Touch(j, TempFile(j), {"write"})
                       ELSE {})
  /\ jscratch' = [jscratch EXCEPT ![j] = "none"]
  /\ jpc' = [jpc EXCEPT ![j] = "open"]
  /\ UNCHANGED <<jin, restOfJobs>>

\* lines 381-412: Document(processing_file) reads the temporary package
\* when the notes were converted and the input otherwise; a missing file
\* or a failing conversion raises
JobOpen(j) ==
  /\ jpc[j] = "open"
  /\ \E ok \in BOOLEAN :
       /\ (jtemp[j] = "set" /\ TempFile(j) \notin disk) => ~ok
       /\ jpc' = [jpc EXCEPT ![j] = IF ok THEN "save" ELSE "handler"]
  /\ touches' = touches \cup
       (IF jtemp[j] = "set" THEN Touch(j, TempFile(j), {"read"})
        ELSE Touch(j, InputFile(j), {"read"}))
  /\ UNCHANGED <<jin, jscratch, jtemp, disk, restOfJobs>>

\* line 415: doc.save(output_path)
JobSave(j) ==
  /\ jpc[j] = "save"
  /\ \E ok \in BOOLEAN :
       /\ jpc' = [jpc EXCEPT ![j] = IF ok THEN "cleanup" ELSE "handler"]
       /\ disk' = IF ok THEN disk \cup {OutputFile(j)} ELSE disk
  /\ touches' = touches \cup Touch(j, OutputFile(j), {"write"})
  /\ UNCHANGED <<jin, jscratch, jtemp, restOfJobs>>

\* lines 418-422: the temporary package is removed when it exists
JobCleanup(j) ==
  /\ jpc[j] = "cleanup"
  /\ IF jtemp[j] = "set" /\ TempFile(j) \in disk
     THEN /\ disk' = disk \ {TempFile(j)}
          /\ touches' = touches \cup Touch(j, TempFile(j), {"delete"})
     ELSE UNCHANGED <<disk, touches>>
  /\ jpc' = [jpc EXCEPT ![j] = "done"]
  /\ UNCHANGED <<jin, jscratch, jtemp, restOfJobs>>

\* lines 424-437: the temporary package, when it exists, is copied to the
\* output path and removed; else the input is copied to the output path
JobHandler(j) ==
  /\ jpc[j] = "handler"
  /\ IF jtemp[j] = "set" /\ TempFile(j) \in disk
     THEN /\ disk' = (disk \ {TempFile(j)}) \cup {OutputFile(j)}
          /\ touches' = touches
               \cup Touch(j, TempFile(j), {"read", "delete"})
               \cup Touch(j, OutputFile(j), {"write"})
     ELSE /\ disk' = disk \cup {OutputFile(j)}
          /\ touches' = touches
               \cup Touch(j, InputFile(j), {"read"})
               \cup Touch(j, OutputFile(j), {"write"})
  /\ jpc' = [jpc EXCEPT ![j] = "copied"]
  /\ UNCHANGED <<jin, jscratch, jtemp, restOfJobs>>

\* two jobs on different inputs whose output paths differ
InitJobs ==
  /\ NotesOff
  /\ EncOff
  /\ WorkerOff
  /\ TxtOff
  /\ RunOff
  /\ TreeOff
  /\ jin \in [Jobs -> InputNames]
  /\ \A j, k \in Jobs :
       j # k => /\ jin[j] # jin[k]
                /\ OutputName(jin[j]) # OutputName(jin[k])
  /\ jpc = [j \in Jobs |-> "start"]
  /\ jscratch = [j \in Jobs |-> "none"]
  /\ jtemp = [j \in Jobs |-> "None"]
  /\ disk = {}
  /\ touches = {}

NextJobs ==
  \E j \in Jobs :
    \/ JobScratch(j)
    \/ JobExtract(j)
    \/ JobRepack(j)
    \/ JobOpen(j)
    \/ JobSave(j)
    \/ JobCleanup(j)
    \/ JobHandler(j)

SpecJobs == InitJobs /\ [][NextJobs]_vars

\* ---------------------------------------------------------------------
\* The footnote converter with the XML rewriter unfolded
\* ---------------------------------------------------------------------

restOfNotes == <<encVars, workerVars, txtVars, runVars, treeVars, jobsVars>>

\* the state of a note part's file: not in the package, as extracted,
\* rewritten through the conversion, or cut short by a write that raised
\* after the file had been opened for writing
NoteStates == {"absent", "orig", "converted", "truncated"}

\* lines 285-286 and 292-293: the line logged after _convert_xml_file
ConvertedLine(part) ==
  IF part = "footnotes" THEN Log("footnotes_converted")
  ELSE Log("endnotes_converted")

\* lines 289-295: after the footnotes the endnotes, after the endnotes the
\* repack
AfterPart(part) == IF part = "footnotes" THEN "endnotes" ELSE "none"

\* the rewriter goes on to another step of the same part
XmlStep(step, pc, lines) ==
  /\ xsteps' = [xsteps EXCEPT ![xpart] = @ \cup {step}]
  /\ xlog' = xlog \o lines
  /\ xpc' = pc

\* a write that raises leaves the file as it was when open() raised, and
\* cut short when the writing raised after open() had truncated it
AfterFailedWrite(state) == {state, "truncated"}

\* a write that completes: the conversion of what was there
AfterWrite(state) == IF state = "orig" THEN "converted" ELSE state

\* lines 276-279: the scratch directory is made and the package extracted
NotesExtract ==
  /\ xpc = "extract"
  /\ \E ok \in BOOLEAN :
       IF ok
       THEN /\ xpc' = "exists"
            /\ xpart' = "footnotes"
            /\ UNCHANGED <<xlog, xret>>
       ELSE /\ xpc' = "done"
            /\ xret' = "False"
            /\ xlog' = xlog \o << Log("zip_error") >>
            /\ UNCHANGED xpart
  /\ UNCHANGED <<xfile, xsteps, xpacked, restOfNotes>>

\* lines 282-284, 287-288 and 290-292: os.path.exists of the part
NotesExists ==
  /\ xpc = "exists"
  /\ xpart \in NoteNames
  /\ IF xfile[xpart] = "absent"
     THEN /\ xlog' = xlog \o (IF xpart = "footnotes"
                              THEN << Log("no_footnotes") >> ELSE << >>)
          /\ xpart' = AfterPart(xpart)
          /\ xpc' = IF AfterPart(xpart) = "none" THEN "repack" ELSE "exists"
     ELSE /\ xpc' = "parse"
          /\ UNCHANGED <<xlog, xpart>>
  /\ UNCHANGED <<xfile, xsteps, xpacked, xret, restOfNotes>>

\* lines 312-315: ET.parse; lines 336-339 when it raises
XmlParse ==
  /\ xpc = "parse"
  /\ \E ok \in BOOLEAN :
       IF ok THEN XmlStep("parsed", "convert", << >>)
       ELSE XmlStep("parse_raised", "regex_read", << Log("xml_error") >>)
  /\ UNCHANGED <<xpart, xfile, xpacked, xret, restOfNotes>>

\* lines 317-331: the w:t elements are converted in memory; lines 336-339
\* when that raises
XmlConvert ==
  /\ xpc = "convert"
  /\ \E ok \in BOOLEAN :
       IF ok THEN XmlStep("text_converted", "write", << >>)
       ELSE XmlStep("convert_raised", "regex_read", << Log("xml_error") >>)
  /\ UNCHANGED <<xpart, xfile, xpacked, xret, restOfNotes>>

\* line 334: tree.write; lines 336-339 when it raises
XmlWrite ==
  /\ xpc = "write"
  /\ \E ok \in BOOLEAN :
       IF ok
       THEN /\ XmlStep("written", "reported", << >>)
            /\ xfile' = [xfile EXCEPT ![xpart] = AfterWrite(@)]
       ELSE /\ XmlStep("write_raised", "regex_read", << Log("xml_error") >>)
            /\ \E st \in AfterFailedWrite(xfile[xpart]) :
                 xfile' = [xfile EXCEPT ![xpart] = st]
  /\ UNCHANGED <<xpart, xpacked, xret, restOfNotes>>

\* lines 343-345: the fallback reads the file as UTF-8 text; lines 364-365
\* when that raises
RegexRead ==
  /\ xpc = "regex_read"
  /\ \E ok \in BOOLEAN :
       IF ok THEN XmlStep("regex_ran", "regex_convert", << >>)
       ELSE /\ xsteps' = [xsteps EXCEPT
                            ![xpart] = @ \cup {"regex_ran", "regex_raised"}]
            /\ xlog' = xlog \o << Log("regex_error") >>
            /\ xpc' = "reported"
  /\ UNCHANGED <<xpart, xfile, xpacked, xret, restOfNotes>>

\* lines 347-359: re.sub with the conversion of the texts that have a CJK
\* character
RegexConvert ==
  /\ xpc = "regex_convert"
  /\ \E ok \in BOOLEAN :
       IF ok THEN XmlStep("regex_converted", "regex_write", << >>)
       ELSE XmlStep("regex_raised", "reported", << Log("regex_error") >>)
  /\ UNCHANGED <<xpart, xfile, xpacked, xret, restOfNotes>>

\* lines 361-362: the file is written back
RegexWrite ==
  /\ xpc = "regex_write"
  /\ \E ok \in BOOLEAN :
       IF ok
       THEN /\ XmlStep("regex_written", "reported", << >>)
            /\ xfile' = [xfile EXCEPT ![xpart] = AfterWrite(@)]
       ELSE /\ XmlStep("regex_raised", "reported", << Log("regex_error") >>)
            /\ \E st \in AfterFailedWrite(xfile[xpart]) :
                 xfile' = [xfile EXCEPT ![xpart] = st]
  /\ UNCHANGED <<xpart, xpacked, xret, restOfNotes>>

\* lines 286 and 293: _convert_xml_file has returned, the part is reported
NotesReported ==
  /\ xpc = "reported"
  /\ xlog' = xlog \o << ConvertedLine(xpart) >>
  /\ xpart' = AfterPart(xpart)
  /\ xpc' = IF AfterPart(xpart) = "none" THEN "repack" ELSE "exists"
  /\ UNCHANGED <<xfile, xsteps, xpacked, xret, restOfNotes>>

\* lines 295-308: the package is written from the scratch directory
NotesRepack ==
  /\ xpc = "repack"
  /\ \E ok \in BOOLEAN :
       IF ok
       THEN /\ xpacked' = xfile
            /\ xret' = "True"
            /\ UNCHANGED xlog
       ELSE /\ xret' = "False"
            /\ xlog' = xlog \o << Log("zip_error") >>
            /\ UNCHANGED xpacked
  /\ xpc' = "done"
  /\ UNCHANGED <<xpart, xfile, xsteps, restOfNotes>>

\* a package with or without footnotes and endnotes
InitNotes ==
  /\ EncOff
  /\ WorkerOff
  /\ TxtOff
  /\ RunOff
  /\ TreeOff
  /\ JobsOff
  /\ xpc = "extract"
  /\ xpart = "none"
  /\ xfile \in [NoteNames -> {"absent", "orig"}]
  /\ xsteps = [n \in NoteNames |-> {}]
  /\ xlog = << >>
  /\ xpacked = [n \in NoteNames |-> "none"]
  /\ xret = "none"

NextNotes ==
  \/ NotesExtract
  \/ NotesExists
  \/ XmlParse
  \/ XmlConvert
  \/ XmlWrite
  \/ RegexRead
  \/ RegexConvert
  \/ RegexWrite
  \/ NotesReported
  \/ NotesRepack

SpecNotes == InitNotes /\ [][NextNotes]_vars

(***************************************************************************)
(* Properties                                                              *)
(***************************************************************************)
\* the output file of the current docx conversion is a complete document
OutputPresent == outdir[output_path] \in {"full", "body", "foot", "orig"}

C2_NoTempLeft ==
  dpc = "docret" => tmpfile[output_path] = "none"

BodyStage == {"open", "convert", "save", "cleanup", "handler", "handler_rm"}

\* C4: the footnote stage has ended before the body stage starts; the step
\* that ends it always enters the body stage, on the temporary package when
\* it succeeded and on the original input, right after the degraded-
\* conversion log line, when it failed.
C4_FootnotesThenBody ==
  [][ /\ (dpc' \in BodyStage => footnote_success' \in {"True", "False"})
      /\ (footnote_success = "unset" /\ footnote_success' # "unset"
            => /\ dpc' = "open"
               /\ processing_file' =
                    (IF footnote_success' = "True" THEN "temp" ELSE "input")
               /\ (footnote_success' = "False"
                     => /\ emitted' # << >>
                        /\ emitted'[Len(emitted')] = Log("foot_failed_body_only")))
      /\ (dpc \in BodyStage /\ dpc' \in BodyStage
            => processing_file' = processing_file) ]_vars

\* after a failed footnote stage the body of the original input was
\* converted and saved
C4_Witness ==
  /\ footnote_success = "False"
  /\ processing_file = "input"
  /\ dpc = "cleanup"
  /\ saved
  /\ outdir[output_path] = "body"

\* C5: in folder mode, when the run has finished every supported file of the
\* listing has been attempted, whatever happened to the files before it.
C5_EveryFileAttempted ==
  (wpc = "finished" /\ mode = "folder")
     => attempted = DOMAIN supported_files

\* C6: the tally never counts a file that carries the .docx extension but is
\* not a package: the success count is at most the number of other files.
C6_MalformedNotCounted ==
  \A k \in DOMAIN emitted :
     emitted[k].text = "tally"
        => emitted[k].a <= Cardinality({ i \in DOMAIN supported_files :
                                           supported_files[i].kind # "junk" })

\* C7: every folder-mode run has emitted the tally line, success count out
\* of the number of files, when it reports completion.
C7_TallyBeforeFinished ==
  (wpc = "finished" /\ mode = "folder")
     => \E k \in DOMAIN emitted :
           emitted[k] = TallyLine(success_count, Len(supported_files))

\* C8: in a batch of distinct input files, the number of distinct output
\* files written by successful conversions equals the number of
\* successfully converted inputs.
C8_OneOutputPerSuccess ==
  mode = "folder"
     => Cardinality({ w[2] : w \in written }) = Cardinality(counted)

C10_NoLegacyEncoding ==
  encPc = "returned" => Lower(encoding) \notin {"gb2312", "gbk"}

\* a confident legacy guess reached the final rule and was upgraded
C10_Witness ==
  /\ encPc = "returned"
  /\ guess = "GBK"
  /\ confidence = 100
  /\ encoding = "gb18030"


\* the log line the handler of each decode stage emits
StageLog(stage) ==
  CASE stage = "superset_strict" -> Log("gb18030_strict_failed")
    [] stage = "requested_strict" -> Log("strict_failed")
    [] stage = "requested_lossy" -> Log("read_error")
    [] OTHER -> Log("final_read_failed")

\* C11: safe_read_file always returns a string and never raises, for every
\* file and every requested encoding name; it returns the empty string only
\* when every fallback decode (superset strict, requested strict, requested
\* lossy, superset lossy) has failed; every decode failure it recovers from
\* is logged.
C11_SafeReadAlwaysString ==
  /\ rret # "raise"
  /\ (rret = "str" /\ content = "empty" => recovered = ReadStages)
  /\ \A stage \in recovered :
       \E i \in DOMAIN emitted : emitted[i] = StageLog(stage)


\* C12: in the plain-text pipeline an entirely empty decode result is the
\* failure signal: convert_txt_file writes no output file for the item and
\* does not report it as converted.
C12_EmptyDecodeSkipped ==
  (caller = "convert_txt_file" /\ tpc = "done" /\ content = "empty")
    => (tret = "False" /\ saved_text = "unset")

\* C18: a text written to a file in GB2312, GBK, GB18030 or Big5 and read
\* back through detect_encoding and safe_read_file is the original text,
\* whatever guess and confidence chardet reports.
C18_LegacyRoundTrip ==
  (caller = "convert_txt_file" /\ tfile \in LegacySamples /\ rret = "str")
    => content = "orig"


\* C13: the scratch directory of the footnote converter no longer exists
\* when _convert_footnotes_using_zip_manipulation has ended, whether it
\* returned after the repack or left through an exception during
\* extraction, rewriting or repack.
C13_ScratchRemoved == footnote_success # "unset" => ~scratch

\* the repack raised after the scratch directory had been filled
C13_Witness ==
  /\ dpc = "open"
  /\ footnote_success = "False"
  /\ tmpfile[output_path] = "partial"
  /\ cur.kind = "good"

\* C14: after a successful footnote stage the package written has exactly
\* the part names of the input package, and every part other than
\* word/footnotes.xml and word/endnotes.xml has the bytes it had in the
\* input.
C14_PartsPreserved ==
  footnote_success = "True"
    => /\ DOMAIN temp_parts = PartsOf(cur)
       /\ \A n \in PartsOf(cur) \ NoteParts : temp_parts[n] = Bytes(n, "orig")

\* a package with footnotes went through the stage and its notes were
\* rewritten
C14_Witness ==
  /\ footnote_success = "True"
  /\ dpc = "open"
  /\ cur.fn
  /\ notes.footnotes = "converted"
  /\ temp_parts[FootnotesPart] = Bytes(FootnotesPart, "converted")


\* the log lines the except clauses of the engine emit
HandlerLogs ==
  {"gb18030_strict_failed", "strict_failed", "read_error",
   "final_read_failed", "txt_error", "doc_error", "zip_error", "xml_error",
   "regex_error", "doc_error_body", "docx_error"}

\* C15: every error caught anywhere in the engine produces at least one
\* log line: here, every UnicodeDecodeError a trial decode of
\* detect_encoding raised and an except clause caught.
C15_CaughtErrorsLogged ==
  caught # {}
    => \E i \in DOMAIN emitted :
         emitted[i].sig = "log" /\ emitted[i].text \in HandlerLogs

\* the order the candidate rule is to try the Chinese encodings in
CandidateOrder == << "gb18030", "gbk", "gb2312", "big5" >>

\* the positions in CandidateOrder whose trial decode of the first 1000
\* bytes succeeded with a character in U+4E00..U+9FFF
Passing == { i \in DOMAIN CandidateOrder : probe.pre[CandidateOrder[i]] = "cjk" }

\* C20: when no earlier rule has returned and the confidence is below 0.7
\* or the guess is a single-byte Western encoding, the result is the first
\* of gb18030, gbk, gb2312, big5 that decodes the first 1000 bytes strictly
\* with a CJK character; a candidate failing either test is never selected
\* by this rule, and later rules are consulted only if no candidate passes.
C20_FirstPassingCandidate ==
  /\ (encPc = "returned" /\ rule # "gb2312"
        /\ (confidence < 70 \/ guess \in {"ISO-8859-1", "Windows-1252", "ascii"}))
       => IF Passing # {}
          THEN /\ rule = "candidate"
               /\ \E i \in Passing :
                    /\ encoding = CandidateOrder[i]
                    /\ \A j \in Passing : i <= j
          ELSE rule \in {"utf8", "default"}
  /\ rule = "candidate"
       => /\ confidence < 70 \/ guess \in {"ISO-8859-1", "Windows-1252", "ascii"}
          /\ probe.pre[encoding] = "cjk"

\* a Western guess of high confidence: big5 was selected after gb18030
\* had decoded without a CJK character and gb2312 had failed to decode
C20_Witness ==
  /\ encPc = "returned"
  /\ rule = "candidate"
  /\ encoding = "big5"
  /\ probe.pre["gb18030"] = "plain"
  /\ probe.pre["gb2312"] = "fail"
  /\ confidence >= 70

\* C16: a run with non-empty trimmed text, whatever its bold, italic,
\* underline, explicit RGB colour, highlight, font name and size, has the
\* converted text after _preserve_run_format, each of the seven
\* attributes as before, and, when it had an explicit font name, that
\* name as its East Asian font.
C16_RunFormatPreserved ==
  (fpc = "done" /\ ~Blank(run0.text)) =>
    /\ run.text = convert_text(run0.text)
    /\ run.bold = run0.bold
    /\ run.italic = run0.italic
    /\ run.underline = run0.underline
    /\ run.color = run0.color
    /\ run.highlight = run0.highlight
    /\ run.name = run0.name
    /\ run.size = run0.size
    /\ (run0.name # "None" => run.eastAsia = run0.name)

C16_Witness ==
  /\ fpc = "done"
  /\ run0.text = " variant "
  /\ run.text = " standard "
  /\ run0.bold = "True"
  /\ run0.italic = "False"
  /\ run0.underline = "DOUBLE"
  /\ run0.color = "FF0000"
  /\ run0.highlight = "unreadable"
  /\ run0.name = "SimSun"
  /\ run0.size = "Pt12"
  /\ run0.eastAsia = "KaiTi"
  /\ run.eastAsia = "SimSun"

\* the paragraphs of a list of tables, in the order of the tree
RECURSIVE LeavesOfTables(_)
LeavesOfTables(tables) ==
  IF tables = << >> THEN << >>
  ELSE IF Head(tables) = << >> THEN LeavesOfTables(Tail(tables))
  ELSE LET cell == Head(Head(tables)) IN
         cell.paragraphs \o LeavesOfTables(cell.tables)
           \o LeavesOfTables(<<Tail(Head(tables))>> \o Tail(tables))

\* every paragraph of a document
Leaves(d) ==
  d.body.paragraphs \o LeavesOfTables(d.body.tables)
    \o d.header.paragraphs \o LeavesOfTables(d.header.tables)
    \o d.footer.paragraphs \o LeavesOfTables(d.footer.tables)

\* the paragraph with all of its text converted
ConvertedText(p) == [k \in DOMAIN p |-> convert_text(p[k])]

\* C17: in a document whose body, header and footer hold tables nested in
\* cells of tables, after the conversion every paragraph whose trimmed
\* original text is non-empty has its text converted, and the paragraphs
\* left as they were are exactly those whose trimmed original text is
\* empty.
C17_NestedParagraphsConverted ==
  bpc = "done" =>
    /\ Len(Leaves(doc)) = Len(Leaves(doc0))
    /\ \A i \in DOMAIN Leaves(doc0) :
         /\ ~ParagraphBlank(Leaves(doc0)[i]) =>
              /\ Leaves(doc)[i] = ConvertedText(Leaves(doc0)[i])
              /\ Leaves(doc)[i] # Leaves(doc0)[i]
         /\ ParagraphBlank(Leaves(doc0)[i]) =>
              Leaves(doc)[i] = Leaves(doc0)[i]

C17_Witness ==
  /\ bpc = "done"
  /\ doc0.body.tables # << >>
  /\ doc0.body.tables[1][1].tables # << >>
  /\ doc0.body.tables[1][1].tables[1][1].paragraphs[1] = <<"variant", " ">>
  /\ doc.body.tables[1][1].tables[1][1].paragraphs[1] = <<"standard", " ">>
  /\ doc0.header.tables # << >>
  /\ doc0.header.tables[1][1].tables # << >>
  /\ doc0.header.tables[1][1].tables[1][1].paragraphs[1] = <<"variant", " ">>
  /\ doc.header.tables[1][1].tables[1][1].paragraphs[1] = <<"standard", " ">>
  /\ doc0.footer.tables # << >>
  /\ doc0.footer.tables[1][1].tables # << >>
  /\ doc0.footer.tables[1][1].tables[1][1].paragraphs[1] = <<" ">>
  /\ doc.footer.tables[1][1].tables[1][1].paragraphs[1] = <<" ">>

\* C19: two jobs running at the same time on different inputs whose
\* output paths differ never read, write or delete the same scratch
\* directory, temporary package or output file, in any interleaving.
C19_JobsTouchDisjointFiles ==
  \A t1, t2 \in touches : t1.res = t2.res => t1.job = t2.job

\* safe_read_file returned a string for a gb2312/gbk request and no open
\* raised anything but UnicodeDecodeError
LegacyReadReturned ==
  /\ rret = "str"
  /\ Lower(requested) \in {"gb2312", "gbk"}
  /\ "requested_lossy" \notin recovered

\* C21 as stated: a gb2312/gbk request is first read strictly as gb18030;
\* when the strict read under the requested encoding fails too, the lossy
\* decode is returned if it has a character in U+4E00..U+9FFF, and
\* otherwise the lossless decode of the file under gb18030 is returned.
C21_LosslessSupersetRetry ==
  LegacyReadReturned =>
    content =
      IF StrictDecode(tfile, "gb18030") # "fail"
      THEN StrictDecode(tfile, "gb18030")
      ELSE IF StrictDecode(tfile, CodecOf(requested)) # "fail"
      THEN StrictDecode(tfile, CodecOf(requested))
      ELSE IF HasCJK(LossyDecode(tfile, CodecOf(requested)))
      THEN LossyDecode(tfile, CodecOf(requested))
      ELSE StrictDecode(tfile, "gb18030")

\* C21, amended: a gb2312/gbk request is first read strictly as gb18030;
\* when the strict read under the requested encoding fails too, the lossy
\* decode is returned if it has a character in U+4E00..U+9FFF, and
\* otherwise the decode of the file under gb18030 with undecodable bytes
\* dropped is returned.
C21_LossySupersetRetry ==
  LegacyReadReturned =>
    content =
      IF StrictDecode(tfile, "gb18030") # "fail"
      THEN StrictDecode(tfile, "gb18030")
      ELSE IF StrictDecode(tfile, CodecOf(requested)) # "fail"
      THEN StrictDecode(tfile, CodecOf(requested))
      ELSE IF HasCJK(LossyDecode(tfile, CodecOf(requested)))
      THEN LossyDecode(tfile, CodecOf(requested))
      ELSE LossyDecode(tfile, "gb18030")

\* "镕" + FF requested as gb2312: both strict reads fail, the lossy gb2312
\* decode "F" has no CJK character, the lossy gb18030 decode is returned
C21_Witness ==
  /\ LegacyReadReturned
  /\ requested = "gb2312"
  /\ tfile = "gbk_broken"
  /\ recovered = {"superset_strict", "requested_strict"}
  /\ \E i \in DOMAIN emitted : emitted[i] = Log("no_cjk_try_gb18030")
  /\ content = "orig"

\* the structured path of the rewriter raised on part n
StructuredRaised(n) ==
  xsteps[n] \cap {"parse_raised", "convert_raised", "write_raised"} # {}

\* _convert_xml_file has returned for part n
Rewritten(n) ==
  \E i \in DOMAIN xlog : xlog[i] = ConvertedLine(n)

\* C22: the regex fallback runs only on a part whose structured parsing
\* failed, never on a part that was parsed, whatever happens afterwards
\* in the text conversion or the writing back.
C22_RegexOnlyAfterParseFailure ==
  \A n \in NoteNames : "regex_ran" \in xsteps[n] => "parsed" \notin xsteps[n]

\* C23: when the structured rewrite and the regex fallback of a note part
\* both raise, both errors are logged, the part's file is exactly as it
\* was extracted, the other part is still processed and the package is
\* still written with the part as it was in the input.
C23_FailedPartLeftIntact ==
  \A n \in NoteNames :
    (StructuredRaised(n) /\ "regex_raised" \in xsteps[n]) =>
      /\ \E i \in DOMAIN xlog : xlog[i] = Log("xml_error")
      /\ \E i \in DOMAIN xlog : xlog[i] = Log("regex_error")
      /\ xfile[n] = "orig"
      /\ xpc # "done" \/ xret = "False" \/ xpacked[n] = "orig"

\* C25: the footnote converter logs a part as converted, and returns
\* True, only if the part that is present was rewritten through the
\* conversion, by the structured path or by the regex fallback.
C25_ReportedOnlyWhenRewritten ==
  \A n \in NoteNames :
    Rewritten(n) =>
      /\ xsteps[n] \cap {"written", "regex_written"} # {}
      /\ xfile[n] = "converted"

\* C24: once doc.save(output_path) has completed in convert_document, the
\* file at output_path when the call ends is the document doc.save wrote;
\* neither the cleanup nor the fallback copies of the exception handler
\* put the footnote-only temporary package or the original input there.
C24_SavedOutputKept ==
  (dpc = "docret" /\ saved) => outdir[output_path] \in {"full", "body"}

\* where conversion_finished stands among the events of the run
FinishedAt == {i \in DOMAIN emitted : emitted[i].sig = "finished"}

\* C26: every run of the worker emits conversion_finished exactly once,
\* as its last event, whether process_files returned True, returned False
\* or raised: the signal is never followed by another event, a run that
\* has ended has emitted it, and a run that has not ended can go on.
C26_FinishedOnceLast ==
  /\ \A i \in FinishedAt : i = Len(emitted)
  /\ wpc = "finished" => FinishedAt # {}
  /\ wpc # "finished" => (FinishedAt = {} /\ ENABLED Next)

\* process_files raised (OpenCC could not be loaded for a .txt file of a
\* folder), run() reported the failure after the events of the loop
C26_Witness ==
  /\ wpc = "finished"
  /\ ret = "raise"
  /\ mode = "folder"
  /\ Len(emitted) > 2
  /\ FinishedAt = {Len(emitted)}
  /\ emitted[Len(emitted)].text = "False"

\* C27: the success flag the worker reports reflects the outcomes of the
\* files: in folder mode conversion_finished(True) is emitted only if at
\* least one file was converted, in single-file mode only if the
\* conversion of the file returned an output path.
C27_SuccessFlagReflectsFiles ==
  (wpc = "finished" /\ emitted[Len(emitted)].text = "True") =>
    /\ mode = "folder" => success_count >= 1
    /\ mode = "file" => written # {}

=============================================================================
